---- MODULE Spec2Model ----
(***************************************************************************)
(* Model of the share-media dispatch pipeline (ShareablesManager) and of   *)
(* the media history store (MediaSidebar.storeMedia) as they run on the    *)
(* clients of one FoundryVTT world.                                        *)
(*                                                                         *)
(* Spec follows calls of dispatch(); StoreSpec follows direct, possibly    *)
(* overlapping calls of storeMedia, deleteMedia and deleteHistory.         *)
(*                                                                         *)
(* Scheduling: every client is a single-threaded JavaScript event loop.    *)
(* A pipeline step whose handler does not wait for an external event is    *)
(* resumed from the microtask queue, so no socket event, form submission   *)
(* or storage acknowledgement (macrotasks) can run while some dispatch is  *)
(* still runnable.  The actions that model macrotasks are guarded by Idle. *)
(***************************************************************************)
EXTENDS Integers, Sequences, FiniteSets, TLC

(* ---------------------------------------------------------------------- *)
(*  Bounds                                                                *)
(* ---------------------------------------------------------------------- *)

\* Number of dispatch() calls followed in one behaviour.
MaxDispatch == 2

\* Number of direct calls of the history store followed in one behaviour.
MaxCalls == 3

(* ---------------------------------------------------------------------- *)
(*  The world: users, sources, static catalog                             *)
(* ---------------------------------------------------------------------- *)

\* game.users, in collection order.
Users == <<"gm", "a", "b">>

UserIds == {Users[i] : i \in 1..Len(Users)}

\* User.isGM
isGM(u) == u = "gm"

\* The users on whose client dispatch() is invoked.
Callers == {"gm", "a"}

\* The client whose history mirror and storage writes are followed.
Owner == "gm"

\* A missing (undefined) option.
Undefined == "undefined"

\* Media locators handed to dispatch().
Sources == {"https://h1/a.png", "/b.png"}

\* The characters of a locator, grouped in the tokens escapeSource tells apart.
Tokens(src) ==
  CASE src = "https://h1/a.png" -> <<"https://h1", "/", "a", ".", "png">>
    [] src = "a.png" -> <<"a", ".", "png">>
    [] src = "/b.png" -> <<"/", "b", ".", "png">>
    [] OTHER -> <<"/">>

\* encodeURIComponent on one token.
encodeURIComponent(t) == IF t = "/" THEN "%2F" ELSE t

\* new URL(url, "http://relative.url"): pathname + search + hash, then
\* encodeURIComponent(...).replace(/\./g, "-").
escapeSource(url) ==
  LET t == Tokens(url)
      path == IF t[1] \in {"https://h1"} THEN Tail(t)
              ELSE IF t[1] = "/" THEN t ELSE <<"/">> \o t
  IN  [i \in 1..Len(path) |->
         IF encodeURIComponent(path[i]) = "." THEN "-"
         ELSE encodeURIComponent(path[i])]

LAYERS_MODES == {"popout", "fullscreen", "scene"}

MEDIA_ACTIONS ==
  [m \in LAYERS_MODES |->
     IF m = "scene"
     THEN << [mode |-> m, optionName |-> "display", optionValue |-> "fit"],
             [mode |-> m, optionName |-> "display", optionValue |-> "fill"] >>
     ELSE << [mode |-> m, optionName |-> "users", optionValue |-> "all"],
             [mode |-> m, optionName |-> "users", optionValue |-> "selection"] >>]

\* Placement areas of the scene and the id of the viewed scene.
AreaIds == {"r1", "r2"}

SceneId == "scene1"

\* An area without a sort flag; below every sort index an area can take.
NoSort == -99

NoMedia == [src |-> Undefined]

(* ---------------------------------------------------------------------- *)
(*  Sequence helpers                                                      *)
(* ---------------------------------------------------------------------- *)

Range(s) == {s[i] : i \in 1..Len(s)}

\* Array.prototype.filter on game.users followed by map(u => u.id).
UsersIn(S) == SelectSeq(Users, LAMBDA u : u \in S)

\* [...new Set(list)]: first occurrences, in order.
RECURSIVE Dedup(_)
Dedup(s) ==
  IF s = <<>> THEN <<>>
  ELSE LET r == Dedup(SubSeq(s, 1, Len(s) - 1))
       IN  IF s[Len(s)] \in Range(r) THEN r ELSE Append(r, s[Len(s)])

\* Collection (insertion ordered Map keyed by id), kept as a sequence.
Has(coll, id) == \E i \in 1..Len(coll) : coll[i].id = id

Get(coll, id) == coll[CHOOSE i \in 1..Len(coll) : coll[i].id = id]

Delete(coll, id) == SelectSeq(coll, LAMBDA m : m.id # id)

\* Map.set: an existing key keeps its position, a new key goes last.
Set(coll, m) ==
  IF Has(coll, m.id)
  THEN [i \in 1..Len(coll) |-> IF coll[i].id = m.id THEN m ELSE coll[i]]
  ELSE Append(coll, m)

\* Object rest destructuring: the record without the named fields.
Without(rec, fields) == [f \in DOMAIN rec \ fields |-> rec[f]]

\* Object spread with one more property.
With(rec, field, value) ==
  [f \in DOMAIN rec \cup {field} |-> IF f = field THEN value ELSE rec[f]]

(* ---------------------------------------------------------------------- *)
(*  State                                                                 *)
(* ---------------------------------------------------------------------- *)

VARIABLES
  active,     \* ids of the users with user.active
  blacklist,  \* blacklistSettings (SettingsCache)
  layers,     \* mediaSidebarSettings.layers (SettingsCache)
  canvas,     \* is game.canvas set
  areas,      \* flags of the placement areas: sort index and media data
  clock,      \* last value returned by Date.now()
  disp,       \* the dispatch() calls: request, pipeline, context, position
  store,      \* the storeMedia() call made by each dispatch
  persisted,  \* the mediaHistory world setting
  mirror,     \* the owner's local media collection
  inbox,      \* queries sent by the owner to itself, not yet handled
  sent,       \* every query sent to a user, in sending order
  notices,    \* number of ui.notifications.warn calls
  ops,        \* direct calls of storeMedia, deleteMedia and deleteHistory
  current,          \* game.users.current of the client showing the sidebar
  sidebarSettings,  \* #sidebarSettings of that client: enabled, gmOnly
  rendered,         \* has the sidebar been rendered
  firstViewed,      \* #firstViewed
  mediaLog,         \* the li elements of #mediaLog, top to bottom
  lastId,           \* #lastId
  renderingQueue,   \* operations waiting in #renderingQueue
  running,          \* the operation #renderingQueue is executing
  renderingBatch,   \* #renderingBatch
  received,         \* number of queries handled by the sidebar
  flushed,          \* has #doFlushMedia emptied the media log
  applied,          \* the last batch request or step of a queued operation
  instances,        \* the FullscreenLayer objects constructed on the client
  staticInstance,   \* FullscreenLayer._instance
  sprites,          \* MediaLayer.sprites: the sprite recorded for each area
  stage,            \* the sprites that are on the canvas
  adding            \* the calls of MediaLayer.addSprite

\* The variables of the dispatch pipeline.
dispatchVars == << blacklist, layers, canvas, areas, disp, store, notices >>

\* The variables of the direct calls of the history store.
historyVars == << ops >>

\* The variables of the sidebar of one client.
sidebarVars == << current, sidebarSettings, rendered, firstViewed, mediaLog,
                 lastId, renderingQueue, running, renderingBatch, received,
                 flushed, applied >>

vars == << active, blacklist, layers, canvas, areas, clock, disp, store,
           persisted, mirror, inbox, sent, notices, ops, current,
           sidebarSettings, rendered, firstViewed, mediaLog, lastId,
           renderingQueue, running, renderingBatch, received, flushed,
           applied, instances, staticInstance, sprites, stage, adding >>

\* The variables of the layers of one client: the fullscreen layer and the
\* sprites of the canvas layer.
clientVars == << instances, staticInstance, sprites, stage, adding >>

\* #lastId when no media is displayed (null).
NoId == << >>

\* No operation of the rendering queue is executing.
NoOperation == [kind |-> "none", id |-> NoId, animate |-> FALSE, batch |-> <<>>]

\* No batch has been requested and no queued operation has started.
NoEvent ==
  [kind |-> "none", phase |-> "none", id |-> NoId, found |-> FALSE,
   size |-> 0]

\* FullscreenLayer._instance when it is null, and a missing entry of
\* MediaLayer.sprites.
None == 0

\* The client before any layer is rendered: static _instance = null and
\* sprites = new Map().
ClientIdle ==
  /\ instances = <<>>
  /\ staticInstance = None
  /\ sprites = [r \in AreaIds |-> None]
  /\ stage = {}
  /\ adding = <<>>

\* The sidebar of the owner's client with the media sidebar disabled in its
\* settings: the query handlers only keep the local collection.
SidebarDisabled ==
  /\ current = Owner
  /\ sidebarSettings = [enabled |-> FALSE, gmOnly |-> FALSE]
  /\ rendered = FALSE
  /\ firstViewed = FALSE
  /\ mediaLog = <<>>
  /\ lastId = NoId
  /\ renderingQueue = <<>>
  /\ running = NoOperation
  /\ renderingBatch = FALSE
  /\ received = 0
  /\ flushed = FALSE
  /\ applied = NoEvent

Dispatches == 1..MaxDispatch

NoOptions ==
  [src |-> Undefined, mode |-> Undefined, optionName |-> Undefined,
   optionValue |-> Undefined, darkness |-> FALSE]

IdleDispatch ==
  [pc |-> "idle", caller |-> Owner, options |-> NoOptions, pipeline |-> <<>>,
   idx |-> 0, ctx |-> NoOptions, log |-> <<>>, result |-> "none",
   offered |-> <<>>, picked |-> "none", resolved |-> <<>>,
   filterActive |-> {}, filterBlacklist |-> {},
   update |-> [sort |-> NoSort, media |-> NoMedia],
   dialog |-> "none", form |-> {}]

NoStore ==
  [state |-> "none", called |-> 0, src |-> Undefined, targetUsers |-> <<>>,
   settings |-> NoOptions, before |-> <<>>, insync |-> FALSE,
   media |-> [id |-> <<>>], collection |-> <<>>]

\* The mediaSidebarSettings.layers values the world starts with: the default
\* (every layer stored) and one with a layer switched off.
LayersChoices ==
  {[m \in LAYERS_MODES |-> TRUE], [m \in LAYERS_MODES |-> m = "scene"]}

\* The sets of areas the viewed scene starts with.
AreaChoices == {{"r1", "r2"}}

\* The users that connect and disconnect while the owner is at work.
Guests == {"b"}

\* The selections the user selector is submitted with.
CheckedChoices == {{}, {"a"}, {"b"}, {"gm", "a", "b"}}

\* The blacklists the settings form is submitted with.
BlacklistChoices == {{}, {"b"}}

Init ==
  /\ active = UserIds
  /\ blacklist = {}
  /\ layers \in LayersChoices
  /\ canvas \in BOOLEAN
  /\ \E available \in AreaChoices :
       areas = [r \in AreaIds |->
                  [exists |-> canvas /\ r \in available, sort |-> NoSort,
                   media |-> NoMedia]]
  /\ clock = 0
  /\ disp = [d \in Dispatches |-> IdleDispatch]
  /\ store = [d \in Dispatches |-> NoStore]
  /\ persisted = <<>>
  /\ mirror = <<>>
  /\ inbox = <<>>
  /\ sent = <<>>
  /\ notices = 0
  /\ ops = <<>>
  /\ SidebarDisabled
  /\ ClientIdle

\* No dispatch can be resumed from the microtask queue.
Idle == \A d \in Dispatches : disp[d].pc # "run"

\* Some dispatch is still to be called or to finish: the behaviour is
\* followed until the last dispatch and its storage write are over.
Watching ==
  \E d \in Dispatches : disp[d].pc # "done" \/ store[d].state = "pending"

\* Every dispatch called so far has returned and its storage write is over.
Settled ==
  \A d \in Dispatches :
    disp[d].pc \in {"idle", "done"} /\ store[d].state # "pending"

(* ---------------------------------------------------------------------- *)
(*  ShareablesManager: validation and pipeline construction               *)
(* ---------------------------------------------------------------------- *)

\* _validateOptions without its last check, the (optionName, optionValue) pair.
ValidateOptionsModeOnly(options) ==
  /\ options.src # Undefined
  /\ options.mode # Undefined
  /\ options.mode \in LAYERS_MODES

\* _validateOptions: does the request pass (TRUE) or does it throw (FALSE).
ValidateOptions(options) ==
  /\ options.src # Undefined
  /\ options.mode # Undefined
  /\ options.mode \in LAYERS_MODES
  /\ \E i \in 1..Len(MEDIA_ACTIONS[options.mode]) :
        /\ MEDIA_ACTIONS[options.mode][i].optionName = options.optionName
        /\ MEDIA_ACTIONS[options.mode][i].optionValue = options.optionValue

\* The registry with the history step registered before the layer step.
PIPELINE_STEPS_StoreFirst ==
  << "is-gm", "all-users", "user-selection", "blacklist-filter",
     "area-selection", "has-darkness", "create-area-flag", "store-media",
     "create-layer" >>

PIPELINE_STEPS ==
  << "is-gm", "all-users", "user-selection", "blacklist-filter",
     "area-selection", "has-darkness", "create-area-flag", "create-layer",
     "store-media" >>

\* The conditions with an all-users step that looks at the option only.
StepConditionByOptionOnly(name, options) ==
  CASE name = "is-gm" -> TRUE
    [] name = "all-users" ->
         options.optionName = "users" /\ options.optionValue = "all"
    [] name = "user-selection" ->
         options.optionName = "users" /\ options.optionValue = "selection"
    [] name = "blacklist-filter" -> options.mode # "scene"
    [] name = "area-selection" -> options.mode = "scene"
    [] name = "has-darkness" -> options.darkness /\ options.mode # "scene"
    [] name = "create-area-flag" -> options.mode = "scene"
    [] name = "create-layer" -> options.mode # "scene"
    [] name = "store-media" -> TRUE

\* The condition of each registered step.
StepCondition(name, options) ==
  CASE name = "is-gm" -> TRUE
    [] name = "all-users" ->
         \/ options.optionName = "users" /\ options.optionValue = "all"
         \/ options.mode = "scene"
    [] name = "user-selection" ->
         options.optionName = "users" /\ options.optionValue = "selection"
    [] name = "blacklist-filter" -> options.mode # "scene"
    [] name = "area-selection" -> options.mode = "scene"
    [] name = "has-darkness" -> options.darkness /\ options.mode # "scene"
    [] name = "create-area-flag" -> options.mode = "scene"
    [] name = "create-layer" -> options.mode # "scene"
    [] name = "store-media" -> TRUE

\* A pipeline of every registered step, whatever its condition.
createExecutionPipelineUnfiltered(options) == PIPELINE_STEPS

\* #createExecutionPipeline
createExecutionPipeline(options) ==
  SelectSeq(PIPELINE_STEPS, LAMBDA name : StepCondition(name, options))

\* The requests dispatch() is called with.
Requests ==
  {r \in [src : Sources \cup {Undefined},
          mode : {"popout", "scene", "bogus", Undefined},
          optionName : {"users", "display"},
          optionValue : {"all", "selection", "fit"},
          darkness : BOOLEAN] :
     \/ /\ ValidateOptions(r)
        /\ r.darkness => r.optionValue = "all"
     \/ /\ ~ValidateOptions(r)
        /\ ~r.darkness
        /\ r.optionValue = "all"
        /\ r.src = Undefined => r.mode = "popout" /\ r.optionName = "users"
        /\ r.mode \notin LAYERS_MODES => r.optionName = "users"}

\* dispatch(): validation, then the pipeline is built and started.
DispatchCall(d, caller, options) ==
  /\ Settled
  /\ disp[d].pc = "idle"
  /\ caller # Owner => ValidateOptions(options) /\ ~options.darkness
  /\ d = 1 => options.src # "/b.png"
  /\ d > 1 => disp[d - 1].pc # "idle"
  /\ disp' = [disp EXCEPT ![d] =
       IF ValidateOptions(options)
       THEN [@ EXCEPT !.pc = "run", !.caller = caller, !.options = options,
                      !.pipeline = createExecutionPipeline(options),
                      !.idx = 1, !.ctx = options]
       ELSE [@ EXCEPT !.pc = "done", !.caller = caller, !.options = options,
                      !.result = "error"]]
  /\ UNCHANGED << active, blacklist, layers, canvas, areas, clock, store,
                  persisted, mirror, inbox, sent, notices >>
  /\ UNCHANGED historyVars
  /\ UNCHANGED sidebarVars
  /\ UNCHANGED clientVars

(* ---------------------------------------------------------------------- *)
(*  ShareablesManager: pipeline execution                                 *)
(* ---------------------------------------------------------------------- *)

\* The dispatch is about to call the handler of the named step.
AtStep(d, name) ==
  /\ disp[d].pc = "run"
  /\ disp[d].pipeline[disp[d].idx] = name

Started(log, name) == Append(log, [step |-> name, ev |-> "start"])

\* The handler returned: a context (ok) or null.
Ended(log, name, ok) ==
  Append(log, [step |-> name, ev |-> IF ok THEN "end" ELSE "null"])

\* #executePipeline without the break on a null context.
ResumeThroughNull(dr, ok, ctx) ==
  IF dr.idx = Len(dr.pipeline)
  THEN [dr EXCEPT !.pc = "done", !.result = "true", !.ctx = ctx]
  ELSE [dr EXCEPT !.pc = "run", !.idx = dr.idx + 1, !.ctx = ctx]

\* #executePipeline after a handler has returned: a null context (ok = FALSE)
\* breaks the loop, the last step ends it; dispatch returns !!context.
Resume(dr, ok, ctx) ==
  IF ~ok THEN [dr EXCEPT !.pc = "done", !.result = "false"]
  ELSE IF dr.idx = Len(dr.pipeline)
       THEN [dr EXCEPT !.pc = "done", !.result = "true", !.ctx = ctx]
       ELSE [dr EXCEPT !.pc = "run", !.idx = dr.idx + 1, !.ctx = ctx]

\* A handler that runs to completion without waiting.
RunStep(d, name, ok, ctx) ==
  disp' = [disp EXCEPT ![d] =
             Resume([@ EXCEPT !.log = Ended(Started(@, name), name, ok)], ok, ctx)]

\* _handleIsGm without the gamemaster check.
HandleIsGmNoCheck(d) ==
  /\ AtStep(d, "is-gm")
  /\ RunStep(d, "is-gm", TRUE, disp[d].ctx)
  /\ UNCHANGED << active, blacklist, layers, canvas, areas, clock, store,
                  persisted, mirror, inbox, sent, notices >>
  /\ UNCHANGED historyVars
  /\ UNCHANGED sidebarVars
  /\ UNCHANGED clientVars

\* _handleIsGm
HandleIsGm(d) ==
  /\ AtStep(d, "is-gm")
  /\ IF ~isGM(disp[d].caller)
     THEN /\ notices' = notices + 1
          /\ RunStep(d, "is-gm", FALSE, disp[d].ctx)
     ELSE /\ notices' = notices
          /\ RunStep(d, "is-gm", TRUE, disp[d].ctx)
  /\ UNCHANGED << active, blacklist, layers, canvas, areas, clock, store,
                  persisted, mirror, inbox, sent >>
  /\ UNCHANGED historyVars
  /\ UNCHANGED sidebarVars
  /\ UNCHANGED clientVars

\* _handleAllUsers without the filter on active users.
HandleAllUsersEveryone(d) ==
  /\ AtStep(d, "all-users")
  /\ RunStep(d, "all-users", TRUE, With(disp[d].ctx, "targetUsers", Users))
  /\ UNCHANGED << active, blacklist, layers, canvas, areas, clock, store,
                  persisted, mirror, inbox, sent, notices >>
  /\ UNCHANGED historyVars
  /\ UNCHANGED sidebarVars
  /\ UNCHANGED clientVars

\* _handleAllUsers
HandleAllUsers(d) ==
  /\ AtStep(d, "all-users")
  /\ RunStep(d, "all-users", TRUE,
             With(disp[d].ctx, "targetUsers", UsersIn(active)))
  /\ UNCHANGED << active, blacklist, layers, canvas, areas, clock, store,
                  persisted, mirror, inbox, sent, notices >>
  /\ UNCHANGED historyVars
  /\ UNCHANGED sidebarVars
  /\ UNCHANGED clientVars

\* _handleUserSelection up to the wait: the user selector is rendered with
\* the users that are active now.
HandleUserSelection(d) ==
  /\ AtStep(d, "user-selection")
  /\ disp' = [disp EXCEPT ![d] =
       [@ EXCEPT !.pc = "wait-users", !.offered = UsersIn(active),
                 !.dialog = "open",
                 !.log = Started(@, "user-selection")]]
  /\ UNCHANGED << active, blacklist, layers, canvas, areas, clock, store,
                  persisted, mirror, inbox, sent, notices >>
  /\ UNCHANGED historyVars
  /\ UNCHANGED sidebarVars
  /\ UNCHANGED clientVars

\* A selection step that goes on with the offered users when the dialog is
\* closed.
UserSelectorResolveIgnoresClose(d, submitted, checked) ==
  /\ Idle
  /\ disp[d].pc = "wait-users"
  /\ checked \subseteq Range(disp[d].offered)
  /\ ~submitted => checked = {}
  /\ disp' = [disp EXCEPT ![d] =
       Resume([@ EXCEPT !.log = Ended(@, "user-selection", TRUE),
                        !.dialog = "closed", !.form = checked,
                        !.picked = IF submitted THEN "users" ELSE "null"],
              TRUE,
              With(@.ctx, "targetUsers",
                   IF submitted
                   THEN SelectSeq(@.offered, LAMBDA u : u \in checked)
                   ELSE @.offered))]
  /\ UNCHANGED << active, blacklist, layers, canvas, areas, clock, store,
                  persisted, mirror, inbox, sent, notices >>
  /\ UNCHANGED historyVars
  /\ UNCHANGED sidebarVars
  /\ UNCHANGED clientVars

\* UserSelector.wait() resolves: the checked users on submission, null
\* (submitted = FALSE) when the dialog is closed.
UserSelectorResolve(d, submitted, checked) ==
  /\ Idle
  /\ disp[d].pc = "wait-users"
  /\ checked \subseteq Range(disp[d].offered)
  /\ ~submitted => checked = {}
  /\ disp' = [disp EXCEPT ![d] =
       Resume([@ EXCEPT !.log = Ended(@, "user-selection", submitted),
                        !.dialog = "closed", !.form = checked,
                        !.picked = IF submitted THEN "users" ELSE "null"],
              submitted,
              With(@.ctx, "targetUsers",
                   SelectSeq(@.offered, LAMBDA u : u \in checked)))]
  /\ UNCHANGED << active, blacklist, layers, canvas, areas, clock, store,
                  persisted, mirror, inbox, sent, notices >>
  /\ UNCHANGED historyVars
  /\ UNCHANGED sidebarVars
  /\ UNCHANGED clientVars

\* A filter that lets every user through.
allowedUsersUnfiltered(targetUsers, blacklistSettings) == targetUsers

\* The filter of _handleBlackListFilter.
allowedUsers(targetUsers, blacklistSettings) ==
  SelectSeq(targetUsers, LAMBDA user : user \notin blacklistSettings)

\* _handleBlackListFilter
HandleBlackListFilter(d) ==
  /\ AtStep(d, "blacklist-filter")
  /\ LET ctx == disp[d].ctx
         noTargets == \/ "targetUsers" \notin DOMAIN ctx
                      \/ Len(ctx.targetUsers) = 0
         allowed == allowedUsers(ctx.targetUsers, blacklist)
         ok == noTargets \/ Len(allowed) > 0
         dr == [disp[d] EXCEPT !.resolved = IF noTargets THEN <<>>
                                            ELSE ctx.targetUsers,
                               !.filterActive = active,
                               !.filterBlacklist = blacklist,
                               !.log = Ended(Started(@, "blacklist-filter"),
                                             "blacklist-filter", ok)]
     IN  disp' = [disp EXCEPT ![d] =
           IF noTargets THEN Resume(dr, TRUE, ctx)
           ELSE IF Len(allowed) = 0 THEN Resume(dr, FALSE, ctx)
           ELSE Resume(dr, TRUE, With(ctx, "targetUsers", allowed))]
  /\ UNCHANGED << active, blacklist, layers, canvas, areas, clock, store,
                  persisted, mirror, inbox, sent, notices >>
  /\ UNCHANGED historyVars
  /\ UNCHANGED sidebarVars
  /\ UNCHANGED clientVars

\* getAvailableAreas(): the areas of the viewed scene that can show media.
getAvailableAreas == {r \in AreaIds : canvas /\ areas[r].exists}

\* _handleAreaSelection opening the area selector whatever the number of
\* available areas.
HandleAreaSelectionAlwaysAsks(d) ==
  /\ AtStep(d, "area-selection")
  /\ IF ~canvas
     THEN /\ notices' = notices + 1
          /\ RunStep(d, "area-selection", FALSE, disp[d].ctx)
     ELSE /\ notices' = notices
          /\ disp' = [disp EXCEPT ![d] =
               [@ EXCEPT !.pc = "wait-area",
                         !.log = Started(@, "area-selection")]]
  /\ UNCHANGED << active, blacklist, layers, canvas, areas, clock, store,
                  persisted, mirror, inbox, sent >>
  /\ UNCHANGED historyVars
  /\ UNCHANGED sidebarVars
  /\ UNCHANGED clientVars

\* _handleAreaSelection up to the wait of the area selector.
HandleAreaSelection(d) ==
  /\ AtStep(d, "area-selection")
  /\ IF ~canvas
     THEN /\ notices' = notices + 1
          /\ RunStep(d, "area-selection", FALSE, disp[d].ctx)
     ELSE /\ notices' = notices
          /\ IF Cardinality(getAvailableAreas) = 1
             THEN RunStep(d, "area-selection", TRUE,
                          With(disp[d].ctx, "targetArea",
                               CHOOSE r \in getAvailableAreas : TRUE))
             ELSE disp' = [disp EXCEPT ![d] =
                    [@ EXCEPT !.pc = "wait-area",
                              !.log = Started(@, "area-selection")]]
  /\ UNCHANGED << active, blacklist, layers, canvas, areas, clock, store,
                  persisted, mirror, inbox, sent >>
  /\ UNCHANGED historyVars
  /\ UNCHANGED sidebarVars
  /\ UNCHANGED clientVars

\* AreaSelector.wait() resolves: the chosen area, or null (Undefined) when
\* the dialog is closed.
AreaSelectorResolve(d, targetArea) ==
  /\ Idle
  /\ disp[d].pc = "wait-area"
  /\ targetArea \in getAvailableAreas \cup {Undefined}
  /\ disp' = [disp EXCEPT ![d] =
       Resume([@ EXCEPT !.log = Ended(@, "area-selection",
                                      targetArea # Undefined)],
              targetArea # Undefined, With(@.ctx, "targetArea", targetArea))]
  /\ UNCHANGED << active, blacklist, layers, canvas, areas, clock, store,
                  persisted, mirror, inbox, sent, notices >>
  /\ UNCHANGED historyVars
  /\ UNCHANGED sidebarVars
  /\ UNCHANGED clientVars

\* _handleHasDarkness without the check of the canvas.
HandleHasDarknessNoCanvasCheck(d) ==
  /\ AtStep(d, "has-darkness")
  /\ RunStep(d, "has-darkness", TRUE,
             With(disp[d].ctx, "sceneId", IF canvas THEN SceneId ELSE Undefined))
  /\ UNCHANGED << active, blacklist, layers, canvas, areas, clock, store,
                  persisted, mirror, inbox, sent, notices >>
  /\ UNCHANGED historyVars
  /\ UNCHANGED sidebarVars
  /\ UNCHANGED clientVars

\* _handleHasDarkness
HandleHasDarkness(d) ==
  /\ AtStep(d, "has-darkness")
  /\ IF ~canvas
     THEN RunStep(d, "has-darkness", FALSE, disp[d].ctx)
     ELSE RunStep(d, "has-darkness", TRUE,
                  With(disp[d].ctx, "sceneId", SceneId))
  /\ UNCHANGED << active, blacklist, layers, canvas, areas, clock, store,
                  persisted, mirror, inbox, sent, notices >>
  /\ UNCHANGED historyVars
  /\ UNCHANGED sidebarVars
  /\ UNCHANGED clientVars

\* The sort index createAreaMediaData gives to an area without one.
nextSort ==
  LET S == {(IF areas[r].sort = NoSort THEN 0 ELSE areas[r].sort) + 1
            : r \in getAvailableAreas} \cup {0}
  IN  CHOOSE x \in S : \A y \in S : y <= x

\* _handleCreateAreaFlag and createAreaMediaData up to area.update(): the
\* update carries a sort index only when the area has none (NoSort: no sort
\* index in the update).
HandleCreateAreaFlag(d) ==
  /\ AtStep(d, "create-area-flag")
  /\ LET ctx == disp[d].ctx
         data == Without(ctx, {"users", "mode", "targetArea"})
         area == areas[ctx.targetArea]
     IN  IF ~area.exists
         THEN RunStep(d, "create-area-flag", FALSE, ctx)
         ELSE disp' = [disp EXCEPT ![d] =
                [@ EXCEPT !.pc = "wait-flag",
                          !.log = Started(@, "create-area-flag"),
                          !.update = [sort |-> IF area.sort \in {NoSort, 0}
                                               THEN nextSort ELSE NoSort,
                                      media |-> data]]]
  /\ UNCHANGED << active, blacklist, layers, canvas, areas, clock, store,
                  persisted, mirror, inbox, sent, notices >>
  /\ UNCHANGED historyVars
  /\ UNCHANGED sidebarVars
  /\ UNCHANGED clientVars

\* area.update() has been applied; createAreaMediaData returns the document.
AreaUpdated(d) ==
  /\ Idle
  /\ disp[d].pc = "wait-flag"
  /\ areas' = [areas EXCEPT ![disp[d].ctx.targetArea] =
                 [@ EXCEPT !.sort = IF disp[d].update.sort = NoSort THEN @
                                    ELSE disp[d].update.sort,
                           !.media = disp[d].update.media]]
  /\ disp' = [disp EXCEPT ![d] =
       Resume([@ EXCEPT !.log = Ended(@, "create-area-flag", TRUE)], TRUE,
              @.ctx)]
  /\ UNCHANGED << active, blacklist, layers, canvas, clock, store,
                  persisted, mirror, inbox, sent, notices >>
  /\ UNCHANGED historyVars
  /\ UNCHANGED sidebarVars
  /\ UNCHANGED clientVars

\* The renderLayer queries without the one for the last target user.
renderLayerQueriesButLast(d, targetUsers, data) ==
  [i \in 1..(Len(targetUsers) - 1) |->
     [d |-> d, to |-> targetUsers[i], type |-> "renderLayer", data |-> data]]

\* The queries _handleCreatelayer sends, one per target user.
renderLayerQueries(d, targetUsers, data) ==
  [i \in 1..Len(targetUsers) |->
     [d |-> d, to |-> targetUsers[i], type |-> "renderLayer", data |-> data]]

\* _handleCreatelayer without the return on an empty list of target users.
HandleCreatelayerNoEmptyCheck(d) ==
  /\ AtStep(d, "create-layer")
  /\ LET ctx == disp[d].ctx
         data == Without(ctx, {"users", "targetUsers"})
         targetUsers == IF "targetUsers" \in DOMAIN ctx
                        THEN ctx.targetUsers ELSE <<>>
     IN  /\ sent' = sent \o renderLayerQueries(d, targetUsers, data)
         /\ RunStep(d, "create-layer", TRUE, ctx)
  /\ UNCHANGED << active, blacklist, layers, canvas, areas, clock, store,
                  persisted, mirror, inbox, notices >>
  /\ UNCHANGED historyVars
  /\ UNCHANGED sidebarVars
  /\ UNCHANGED clientVars

\* _handleCreatelayer
HandleCreatelayer(d) ==
  /\ AtStep(d, "create-layer")
  /\ LET ctx == disp[d].ctx
         data == Without(ctx, {"users", "targetUsers"})
         noTargets == \/ "targetUsers" \notin DOMAIN ctx
                      \/ Len(ctx.targetUsers) = 0
     IN  IF noTargets
         THEN /\ sent' = sent
              /\ RunStep(d, "create-layer", FALSE, ctx)
         ELSE /\ sent' = sent \o renderLayerQueries(d, ctx.targetUsers, data)
              /\ RunStep(d, "create-layer", TRUE, ctx)
  /\ UNCHANGED << active, blacklist, layers, canvas, areas, clock, store,
                  persisted, mirror, inbox, notices >>
  /\ UNCHANGED historyVars
  /\ UNCHANGED sidebarVars
  /\ UNCHANGED clientVars

(* ---------------------------------------------------------------------- *)
(*  MediaSidebar: the history store                                       *)
(* ---------------------------------------------------------------------- *)

\* storeMedia replacing the target users of an existing media instead of
\* merging them.
storeMediaPrepareNoMerge(collection, src, targetUsers, settings, timestamp) ==
  LET key == escapeSource(src)
      players == SelectSeq(targetUsers, LAMBDA userId : ~isGM(userId))
      media == [id |-> key, timestamp |-> timestamp, src |-> src,
                targetUsers |-> players, settings |-> settings]
  IN  [media |-> media,
       collection |-> Set(Delete(collection, key), media)]

\* storeMedia keeping every target user, gamemasters included.
storeMediaPrepareAnyUser(collection, src, targetUsers, settings, timestamp) ==
  LET key == escapeSource(src)
      media ==
        IF Has(collection, key)
        THEN [Get(collection, key) EXCEPT
                !.timestamp = timestamp,
                !.targetUsers = Dedup(@ \o targetUsers),
                !.settings = settings]
        ELSE [id |-> key, timestamp |-> timestamp, src |-> src,
              targetUsers |-> targetUsers, settings |-> settings]
  IN  [media |-> media,
       collection |-> Set(Delete(collection, key), media)]

\* storeMedia up to the storage write: the media object and the new
\* collection built from the local collection.
storeMediaPrepare(collection, src, targetUsers, settings, timestamp) ==
  LET key == escapeSource(src)
      players == SelectSeq(targetUsers, LAMBDA userId : ~isGM(userId))
      media ==
        IF Has(collection, key)
        THEN [Get(collection, key) EXCEPT
                !.timestamp = timestamp,
                !.targetUsers = Dedup(@ \o players),
                !.settings = settings]
        ELSE [id |-> key, timestamp |-> timestamp, src |-> src,
              targetUsers |-> players, settings |-> settings]
  IN  [media |-> media,
       collection |-> Set(Delete(collection, key), media)]

\* The gamemasters and targets of a media, connected or not.
notifiedUsersIgnoringActive(media) ==
  SelectSeq(Users, LAMBDA u : isGM(u) \/ u \in Range(media.targetUsers))

\* The users storeMedia notifies: active, and gamemaster or target.
notifiedUsers(media) ==
  SelectSeq(Users, LAMBDA u :
     u \in active /\ (isGM(u) \/ u \in Range(media.targetUsers)))

\* The addMedia queries of one storeMedia call.
addMediaQueries(d, users, media) ==
  [i \in 1..Len(users) |->
     [d |-> d, to |-> users[i], type |-> "addMedia", data |-> media]]

\* _handleStoreMedia without the check of the sidebar settings.
HandleStoreMediaAnyLayer(d) ==
  /\ AtStep(d, "store-media")
  /\ \E timestamp \in clock..(clock + 1) :
     LET ctx == disp[d].ctx
         settings == Without(ctx, {"src", "targetUsers"})
         targetUsers == IF "targetUsers" \in DOMAIN ctx
                        THEN ctx.targetUsers ELSE <<>>
         prepared == storeMediaPrepare(mirror, ctx.src, targetUsers,
                                       settings, timestamp)
     IN  IF isGM(disp[d].caller)
         THEN /\ clock' = timestamp
              /\ store' = [store EXCEPT ![d] =
                   [state |-> "pending", called |-> @.called + 1,
                    src |-> ctx.src, targetUsers |-> targetUsers,
                    settings |-> settings, before |-> mirror,
                    insync |-> mirror = persisted,
                    media |-> prepared.media,
                    collection |-> prepared.collection]]
         ELSE UNCHANGED << clock, store >>
  /\ RunStep(d, "store-media", TRUE, disp[d].ctx)
  /\ UNCHANGED << active, blacklist, layers, canvas, areas, persisted,
                  mirror, inbox, sent, notices >>
  /\ UNCHANGED historyVars
  /\ UNCHANGED sidebarVars
  /\ UNCHANGED clientVars

\* _handleStoreMedia, with the part of storeMedia that runs before its
\* storage write: storeMedia is not awaited, the handler returns at once.
HandleStoreMedia(d) ==
  /\ AtStep(d, "store-media")
  /\ \E timestamp \in clock..(clock + 1) :
     LET ctx == disp[d].ctx
         settings == Without(ctx, {"src", "targetUsers"})
         targetUsers == IF "targetUsers" \in DOMAIN ctx
                        THEN ctx.targetUsers ELSE <<>>
         prepared == storeMediaPrepare(mirror, ctx.src, targetUsers,
                                       settings, timestamp)
     IN  IF layers[settings.mode] /\ isGM(disp[d].caller)
         THEN /\ clock' = timestamp
              /\ store' = [store EXCEPT ![d] =
                   [state |-> "pending", called |-> @.called + 1,
                    src |-> ctx.src, targetUsers |-> targetUsers,
                    settings |-> settings, before |-> mirror,
                    insync |-> mirror = persisted,
                    media |-> prepared.media,
                    collection |-> prepared.collection]]
         ELSE UNCHANGED << clock, store >>
  /\ RunStep(d, "store-media", TRUE, disp[d].ctx)
  /\ UNCHANGED << active, blacklist, layers, canvas, areas, persisted,
                  mirror, inbox, sent, notices >>
  /\ UNCHANGED historyVars
  /\ UNCHANGED sidebarVars
  /\ UNCHANGED clientVars

\* The storage write of storeMedia succeeded: the setting holds the new
\* collection and the active gamemasters and targets are notified.
StorePersist(d) ==
  /\ Idle
  /\ store[d].state = "pending"
  /\ persisted' = store[d].collection
  /\ store' = [store EXCEPT ![d].state = "stored"]
  /\ LET queries == addMediaQueries(d, notifiedUsers(store[d].media),
                                    store[d].media)
     IN  /\ sent' = sent \o queries
         /\ inbox' = inbox \o SelectSeq(queries, LAMBDA q : q.to = Owner)
  /\ UNCHANGED << active, blacklist, layers, canvas, areas, clock, disp,
                  mirror, notices >>
  /\ UNCHANGED historyVars
  /\ UNCHANGED sidebarVars
  /\ UNCHANGED clientVars

\* The storage write of storeMedia was rejected: storeMedia rejects too.
StorePersistFail(d) ==
  /\ Idle
  /\ store[d].state = "pending"
  /\ store' = [store EXCEPT ![d].state = "failed"]
  /\ UNCHANGED << active, blacklist, layers, canvas, areas, clock, disp,
                  persisted, mirror, inbox, sent, notices >>
  /\ UNCHANGED historyVars
  /\ UNCHANGED sidebarVars
  /\ UNCHANGED clientVars

\* _addMedia on the owner's client: the local collection is synced.
AddMedia ==
  /\ Idle
  /\ inbox # <<>>
  /\ Head(inbox).type = "addMedia"
  /\ LET media == Head(inbox).data
     IN  mirror' = Set(Delete(mirror, media.id), media)
  /\ inbox' = Tail(inbox)
  /\ UNCHANGED << active, blacklist, layers, canvas, areas, clock, disp,
                  store, persisted, sent, notices >>
  /\ UNCHANGED historyVars
  /\ UNCHANGED sidebarVars
  /\ UNCHANGED clientVars

(* ---------------------------------------------------------------------- *)
(*  The environment                                                       *)
(* ---------------------------------------------------------------------- *)

\* A user other than the owner connects.
Connect(u) ==
  /\ Idle
  /\ Watching
  /\ u \in Guests \ active
  /\ active' = active \cup {u}
  /\ UNCHANGED << blacklist, layers, canvas, areas, clock, disp, store,
                  persisted, mirror, inbox, sent, notices >>
  /\ UNCHANGED historyVars
  /\ UNCHANGED sidebarVars
  /\ UNCHANGED clientVars

\* A user other than the owner disconnects.
Disconnect(u) ==
  /\ Idle
  /\ Watching
  /\ u \in active \cap Guests
  /\ active' = active \ {u}
  /\ UNCHANGED << blacklist, layers, canvas, areas, clock, disp, store,
                  persisted, mirror, inbox, sent, notices >>
  /\ UNCHANGED historyVars
  /\ UNCHANGED sidebarVars
  /\ UNCHANGED clientVars

\* BlacklistSettings.#onSubmit: the cached setting is replaced (the form then
\* asks for a reload of the world, so no dispatch is under way).
SetBlacklist(users) ==
  /\ Settled
  /\ Watching
  /\ users # blacklist
  /\ blacklist' = users
  /\ UNCHANGED << active, layers, canvas, areas, clock, disp, store,
                  persisted, mirror, inbox, sent, notices >>
  /\ UNCHANGED historyVars
  /\ UNCHANGED sidebarVars
  /\ UNCHANGED clientVars

Next ==
  \/ \E d \in Dispatches, caller \in Callers, options \in Requests :
       DispatchCall(d, caller, options)
  \/ \E d \in Dispatches : HandleIsGm(d)
  \/ \E d \in Dispatches : HandleAllUsers(d)
  \/ \E d \in Dispatches : HandleUserSelection(d)
  \/ \E d \in Dispatches, submitted \in BOOLEAN, checked \in CheckedChoices :
       UserSelectorResolve(d, submitted, checked)
  \/ \E d \in Dispatches : HandleBlackListFilter(d)
  \/ \E d \in Dispatches : HandleAreaSelection(d)
  \/ \E d \in Dispatches, targetArea \in AreaIds \cup {Undefined} :
       AreaSelectorResolve(d, targetArea)
  \/ \E d \in Dispatches : HandleHasDarkness(d)
  \/ \E d \in Dispatches : HandleCreateAreaFlag(d)
  \/ \E d \in Dispatches : AreaUpdated(d)
  \/ \E d \in Dispatches : HandleCreatelayer(d)
  \/ \E d \in Dispatches : HandleStoreMedia(d)
  \/ \E d \in Dispatches : StorePersist(d)
  \/ \E d \in Dispatches : StorePersistFail(d)
  \/ AddMedia
  \/ \E u \in Guests : Connect(u)
  \/ \E u \in Guests : Disconnect(u)
  \/ \E users \in BlacklistChoices : SetBlacklist(users)

Spec == Init /\ [][Next]_vars

(* ---------------------------------------------------------------------- *)
(*  Scene mode: area selection and the sort order of the areas            *)
(* ---------------------------------------------------------------------- *)

\* The largest sort index, in absolute value, followed on an area.
MaxSort == 3

\* The media data of an area that was shared to before.
SharedMedia ==
  [src |-> "https://h1/a.png", optionName |-> "display",
   optionValue |-> "fit", darkness |-> FALSE, targetUsers |-> Users]

\* The areas of the viewed scene: none, one or two areas never shared to,
\* or two areas each shared to once, r1 first.
SceneChoices ==
  {[r \in AreaIds |->
      [exists |-> r \in available, sort |-> NoSort, media |-> NoMedia]]
     : available \in {{}, {"r1"}, {"r1", "r2"}}}
  \cup {[r \in AreaIds |->
           [exists |-> TRUE, sort |-> IF r = "r1" THEN 1 ELSE 2,
            media |-> SharedMedia]]}

\* The valid requests of the scene mode.
SceneRequests == {r \in Requests : ValidateOptions(r) /\ r.mode = "scene"}

InitScene ==
  /\ active = UserIds
  /\ blacklist = {}
  /\ layers \in LayersChoices
  /\ canvas \in BOOLEAN
  /\ \E scene \in SceneChoices :
       areas = [r \in AreaIds |->
                  [scene[r] EXCEPT !.exists = canvas /\ scene[r].exists]]
  /\ clock = 0
  /\ disp = [d \in Dispatches |-> IdleDispatch]
  /\ store = [d \in Dispatches |-> NoStore]
  /\ persisted = <<>>
  /\ mirror = <<>>
  /\ inbox = <<>>
  /\ sent = <<>>
  /\ notices = 0
  /\ ops = <<>>
  /\ SidebarDisabled
  /\ ClientIdle

\* The sort indexes of the available areas other than targetArea.
otherSorts(targetArea) ==
  {areas[r].sort : r \in {q \in getAvailableAreas \ {targetArea} :
                            areas[q].sort # NoSort}}

\* sendToBackOrBringToFront, called by the HUD of the sprite of an area
\* that shows a media: one below the lowest, or one above the highest, sort
\* index of the other areas; nothing when no other area has one.
SendToBackOrBringToFront(targetArea, front) ==
  /\ Idle
  /\ areas[targetArea].exists
  /\ areas[targetArea].media # NoMedia
  /\ otherSorts(targetArea) # {}
  /\ LET S == otherSorts(targetArea)
         target == IF front
                   THEN (CHOOSE x \in S : \A y \in S : y <= x) + 1
                   ELSE (CHOOSE x \in S : \A y \in S : x <= y) - 1
     IN  /\ target \in -MaxSort..MaxSort
         /\ areas' = [areas EXCEPT ![targetArea].sort = target]
  /\ UNCHANGED << active, blacklist, layers, canvas, clock, disp, store,
                  persisted, mirror, inbox, sent, notices >>
  /\ UNCHANGED historyVars
  /\ UNCHANGED sidebarVars
  /\ UNCHANGED clientVars

NextScene ==
  \/ \E d \in Dispatches, caller \in Callers, options \in SceneRequests :
       DispatchCall(d, caller, options)
  \/ \E d \in Dispatches : HandleIsGm(d)
  \/ \E d \in Dispatches : HandleAllUsers(d)
  \/ \E d \in Dispatches : HandleAreaSelection(d)
  \/ \E d \in Dispatches, targetArea \in AreaIds \cup {Undefined} :
       AreaSelectorResolve(d, targetArea)
  \/ \E d \in Dispatches : HandleCreateAreaFlag(d)
  \/ \E d \in Dispatches : AreaUpdated(d)
  \/ \E d \in Dispatches : HandleStoreMedia(d)
  \/ \E d \in Dispatches : StorePersist(d)
  \/ \E d \in Dispatches : StorePersistFail(d)
  \/ AddMedia
  \/ \E targetArea \in AreaIds, front \in BOOLEAN :
       SendToBackOrBringToFront(targetArea, front)

SceneSpec == InitScene /\ [][NextScene]_vars

(* ---------------------------------------------------------------------- *)
(*  WaitableMixin: the promise of wait() and the events of the dialog     *)
(* ---------------------------------------------------------------------- *)

\* A resolve function that settles the promise again when called twice.
resolveAgain(dr, submitted, checked) ==
  LET over == [dr EXCEPT !.pc = "wait-users",
                         !.idx = Len(SelectSeq(dr.pipeline, LAMBDA n :
                                   n \in {"is-gm", "user-selection"}))]
  IN  Resume([over EXCEPT !.log = Ended(@, "user-selection", submitted),
                          !.picked = IF submitted THEN "users" ELSE "null"],
             submitted,
             With(over.ctx, "targetUsers",
                  SelectSeq(over.offered, LAMBDA u : u \in checked)))

\* The resolve function of the promise of wait(), with the continuation of
\* _handleUserSelection: the first call settles the promise and resumes the
\* dispatch with the checked users, or with null (submitted = FALSE); a
\* call on a settled promise does nothing.
resolve(dr, submitted, checked) ==
  IF dr.pc # "wait-users" THEN dr
  ELSE Resume([dr EXCEPT !.log = Ended(@, "user-selection", submitted),
                         !.picked = IF submitted THEN "users" ELSE "null"],
              submitted,
              With(dr.ctx, "targetUsers",
                   SelectSeq(dr.offered, LAMBDA u : u \in checked)))

\* The form of the user selector is submitted: the wrapped handler awaits
\* UserSelector.#onSubmit and resolves with the checked users; the
\* application closes afterwards (closeOnSubmit).
SelectorSubmit(d, checked) ==
  /\ Idle
  /\ disp[d].dialog = "open"
  /\ checked \subseteq Range(disp[d].offered)
  /\ disp' = [disp EXCEPT ![d] =
       resolve([@ EXCEPT !.dialog = "submitted", !.form = checked],
               TRUE, checked)]
  /\ UNCHANGED << active, blacklist, layers, canvas, areas, clock, store,
                  persisted, mirror, inbox, sent, notices >>
  /\ UNCHANGED historyVars
  /\ UNCHANGED sidebarVars
  /\ UNCHANGED clientVars

\* The "close" event of the user selector, after a submission or when the
\* dialog is dismissed: the listener resolves with null.
SelectorClose(d) ==
  /\ Idle
  /\ disp[d].dialog \in {"open", "submitted"}
  /\ disp' = [disp EXCEPT ![d] =
       resolve([@ EXCEPT !.dialog = "closed"], FALSE, {})]
  /\ UNCHANGED << active, blacklist, layers, canvas, areas, clock, store,
                  persisted, mirror, inbox, sent, notices >>
  /\ UNCHANGED historyVars
  /\ UNCHANGED sidebarVars
  /\ UNCHANGED clientVars

\* The valid requests that ask for a selection of users.
SelectionRequests ==
  {r \in Requests : ValidateOptions(r) /\ r.optionValue = "selection"}

NextWait ==
  \/ \E d \in Dispatches, caller \in Callers, options \in SelectionRequests :
       DispatchCall(d, caller, options)
  \/ \E d \in Dispatches : HandleIsGm(d)
  \/ \E d \in Dispatches : HandleUserSelection(d)
  \/ \E d \in Dispatches, checked \in CheckedChoices :
       SelectorSubmit(d, checked)
  \/ \E d \in Dispatches : SelectorClose(d)
  \/ \E d \in Dispatches : HandleBlackListFilter(d)
  \/ \E d \in Dispatches : HandleCreatelayer(d)
  \/ \E d \in Dispatches : HandleStoreMedia(d)
  \/ \E d \in Dispatches : StorePersist(d)
  \/ \E d \in Dispatches : StorePersistFail(d)
  \/ AddMedia
  \/ \E u \in Guests : Connect(u)
  \/ \E u \in Guests : Disconnect(u)
  \/ \E users \in BlacklistChoices : SetBlacklist(users)

WaitSpec == Init /\ [][NextWait]_vars

(* ---------------------------------------------------------------------- *)
(*  MediaSidebar: storeMedia, deleteMedia and deleteHistory called directly *)
(* ---------------------------------------------------------------------- *)

\* A call of the history store that has not been given its values yet.
NoCall ==
  [op |-> "none", caller |-> Owner, state |-> "none", id |-> <<>>,
   src |-> Undefined, targetUsers |-> <<>>, settings |-> NoOptions,
   media |-> [id |-> <<>>], before |-> <<>>, insync |-> FALSE,
   collection |-> <<>>, notified |-> {}]

\* The target users storeMedia is called with.
TargetChoices == {<<"a">>, <<"gm", "b">>}

\* The settings storeMedia is called with.
SettingsChoices ==
  {Without([NoOptions EXCEPT !.mode = "popout", !.optionName = "users",
                             !.optionValue = "all"], {"src"})}

\* The ids deleteMedia is called with.
IdChoices == {escapeSource(src) : src \in Sources}

\* The state the direct calls of the history store start from.
InitStore ==
  /\ active = UserIds
  /\ blacklist = {}
  /\ layers = [m \in LAYERS_MODES |-> TRUE]
  /\ canvas = FALSE
  /\ areas = [r \in AreaIds |->
                [exists |-> FALSE, sort |-> NoSort, media |-> NoMedia]]
  /\ clock = 0
  /\ disp = [d \in Dispatches |-> IdleDispatch]
  /\ store = [d \in Dispatches |-> NoStore]
  /\ persisted = <<>>
  /\ mirror = <<>>
  /\ inbox = <<>>
  /\ sent = <<>>
  /\ notices = 0
  /\ ops = <<>>
  /\ SidebarDisabled
  /\ ClientIdle

\* The storage writes are acknowledged in the order they were requested.
FirstPending(c) ==
  /\ c \in 1..Len(ops)
  /\ ops[c].state = "pending"
  /\ \A e \in 1..(c - 1) : ops[e].state # "pending"

\* storeMedia without its gamemaster guard.
StoreMediaCallByAnyone(caller, src, targetUsers, settings) ==
  /\ Len(ops) < MaxCalls
  /\ ~isGM(caller) => src = "/b.png" /\ targetUsers = <<"a">>
  /\ \E timestamp \in clock..(clock + 1) :
       LET prepared == storeMediaPrepare(mirror, src, targetUsers,
                                          settings, timestamp)
       IN  /\ clock' = timestamp
           /\ ops' = Append(ops,
                [NoCall EXCEPT !.op = "storeMedia", !.caller = caller,
                               !.state = "pending",
                               !.id = escapeSource(src), !.src = src,
                               !.targetUsers = targetUsers,
                               !.settings = settings,
                               !.media = prepared.media,
                               !.before = mirror,
                               !.insync = (mirror = persisted),
                               !.collection = prepared.collection])
  /\ UNCHANGED << active, persisted, mirror, inbox, sent >>
  /\ UNCHANGED dispatchVars
  /\ UNCHANGED sidebarVars
  /\ UNCHANGED clientVars

\* storeMedia up to its storage write.
StoreMediaCall(caller, src, targetUsers, settings) ==
  /\ Len(ops) < MaxCalls
  /\ ~isGM(caller) => src = "/b.png" /\ targetUsers = <<"a">>
  /\ IF ~isGM(caller)
     THEN /\ ops' = Append(ops, [NoCall EXCEPT !.op = "storeMedia",
                                               !.caller = caller,
                                               !.state = "returned"])
          /\ clock' = clock
     ELSE \E timestamp \in clock..(clock + 1) :
            LET prepared == storeMediaPrepare(mirror, src, targetUsers,
                                              settings, timestamp)
            IN  /\ clock' = timestamp
                /\ ops' = Append(ops,
                     [NoCall EXCEPT !.op = "storeMedia", !.caller = caller,
                                    !.state = "pending",
                                    !.id = escapeSource(src), !.src = src,
                                    !.targetUsers = targetUsers,
                                    !.settings = settings,
                                    !.media = prepared.media,
                                    !.before = mirror,
                                    !.insync = (mirror = persisted),
                                    !.collection = prepared.collection])
  /\ UNCHANGED << active, persisted, mirror, inbox, sent >>
  /\ UNCHANGED dispatchVars
  /\ UNCHANGED sidebarVars
  /\ UNCHANGED clientVars

\* deleteMedia up to its storage write.
DeleteMediaCall(caller, id) ==
  /\ Len(ops) < MaxCalls
  /\ ~isGM(caller) => id = escapeSource("/b.png")
  /\ ops' = Append(ops,
       IF ~isGM(caller) \/ ~Has(mirror, id)
       THEN [NoCall EXCEPT !.op = "deleteMedia", !.caller = caller,
                           !.state = "returned", !.id = id,
                           !.before = mirror,
                           !.insync = (mirror = persisted)]
       ELSE [NoCall EXCEPT !.op = "deleteMedia", !.caller = caller,
                           !.state = "pending", !.id = id,
                           !.targetUsers = Get(mirror, id).targetUsers,
                           !.before = mirror,
                           !.insync = (mirror = persisted),
                           !.collection = Delete(mirror, id)])
  /\ UNCHANGED << active, clock, persisted, mirror, inbox, sent >>
  /\ UNCHANGED dispatchVars
  /\ UNCHANGED sidebarVars
  /\ UNCHANGED clientVars

\* deleteHistory up to its storage write.
DeleteHistoryCall(caller) ==
  /\ Len(ops) < MaxCalls
  /\ ops' = Append(ops,
       [NoCall EXCEPT !.op = "deleteHistory", !.caller = caller,
                      !.state = IF isGM(caller) THEN "pending"
                                ELSE "returned",
                      !.before = mirror,
                      !.insync = (mirror = persisted)])
  /\ UNCHANGED << active, clock, persisted, mirror, inbox, sent >>
  /\ UNCHANGED dispatchVars
  /\ UNCHANGED sidebarVars
  /\ UNCHANGED clientVars

\* The users notified of a deletion when the targets are looked up after
\* the media has been deleted: the active gamemasters.
removedUsersAfterDelete(targetUsers) ==
  SelectSeq(Users, LAMBDA u : u \in active /\ isGM(u))

\* The users deleteMedia notifies: active, and gamemaster or former target.
removedUsers(targetUsers) ==
  SelectSeq(Users, LAMBDA u :
     u \in active /\ (isGM(u) \/ u \in Range(targetUsers)))

\* The active users that are gamemasters or targets of a media of the local
\* collection.
flushedUsersTargetsOnly ==
  SelectSeq(Users, LAMBDA u :
     u \in active /\ (isGM(u) \/ \E i \in 1..Len(mirror) :
                                    u \in Range(mirror[i].targetUsers)))

\* The users deleteHistory notifies: the active ones.
flushedUsers == SelectSeq(Users, LAMBDA u : u \in active)

\* The removeMedia queries of one deleteMedia call.
removeMediaQueries(c, users, id) ==
  [i \in 1..Len(users) |->
     [d |-> c, to |-> users[i], type |-> "removeMedia",
      data |-> [id |-> id, options |-> [animate |-> TRUE]]]]

\* The flushMedia queries of one deleteHistory call.
flushMediaQueries(c, users) ==
  [i \in 1..Len(users) |->
     [d |-> c, to |-> users[i], type |-> "flushMedia", data |-> <<>>]]

\* The queries a call sends once its storage write has succeeded.
queriesAfterWrite(c) ==
  CASE ops[c].op = "storeMedia" ->
         addMediaQueries(c, notifiedUsers(ops[c].media), ops[c].media)
    [] ops[c].op = "deleteMedia" ->
         removeMediaQueries(c, removedUsers(ops[c].targetUsers), ops[c].id)
    [] ops[c].op = "deleteHistory" -> flushMediaQueries(c, flushedUsers)

\* #setRemoteStorage resolved: the setting holds the call's collection and
\* the call goes on to notify the users.
WriteDone(c) ==
  /\ FirstPending(c)
  /\ persisted' = ops[c].collection
  /\ LET queries == queriesAfterWrite(c)
     IN  /\ sent' = sent \o queries
         /\ inbox' = inbox \o SelectSeq(queries, LAMBDA q : q.to = Owner)
         /\ ops' = [ops EXCEPT ![c].state = "stored",
                               ![c].notified = active]
  /\ UNCHANGED << active, clock, mirror >>
  /\ UNCHANGED dispatchVars
  /\ UNCHANGED sidebarVars
  /\ UNCHANGED clientVars

\* A rejected storage write after which the users are notified all the same.
WriteFailedButNotifies(c) ==
  /\ FirstPending(c)
  /\ LET queries == queriesAfterWrite(c)
     IN  /\ sent' = sent \o queries
         /\ inbox' = inbox \o SelectSeq(queries, LAMBDA q : q.to = Owner)
  /\ ops' = [ops EXCEPT ![c].state = "failed"]
  /\ UNCHANGED << active, clock, persisted, mirror >>
  /\ UNCHANGED dispatchVars
  /\ UNCHANGED sidebarVars
  /\ UNCHANGED clientVars

\* #setRemoteStorage rejected: the call rejects at its await.
WriteFailed(c) ==
  /\ FirstPending(c)
  /\ ops' = [ops EXCEPT ![c].state = "failed"]
  /\ UNCHANGED << active, clock, persisted, mirror, inbox, sent >>
  /\ UNCHANGED dispatchVars
  /\ UNCHANGED sidebarVars
  /\ UNCHANGED clientVars

\* _removeMedia on the owner's client: the local collection is synced.
RemoveMedia ==
  /\ inbox # <<>>
  /\ Head(inbox).type = "removeMedia"
  /\ mirror' = Delete(mirror, Head(inbox).data.id)
  /\ inbox' = Tail(inbox)
  /\ UNCHANGED << active, clock, persisted, sent >>
  /\ UNCHANGED dispatchVars
  /\ UNCHANGED historyVars
  /\ UNCHANGED sidebarVars
  /\ UNCHANGED clientVars

\* _flushMedia on the owner's client: the local collection is emptied.
FlushMedia ==
  /\ inbox # <<>>
  /\ Head(inbox).type = "flushMedia"
  /\ mirror' = <<>>
  /\ inbox' = Tail(inbox)
  /\ UNCHANGED << active, clock, persisted, sent >>
  /\ UNCHANGED dispatchVars
  /\ UNCHANGED historyVars
  /\ UNCHANGED sidebarVars
  /\ UNCHANGED clientVars

\* A user other than the owner connects or disconnects between two calls or
\* while a storage write is under way.
Presence(u) ==
  /\ Len(ops) < MaxCalls \/ \E c \in 1..Len(ops) : ops[c].state = "pending"
  /\ u \in Guests
  /\ active' = IF u \in active THEN active \ {u} ELSE active \cup {u}
  /\ UNCHANGED << clock, persisted, mirror, inbox, sent >>
  /\ UNCHANGED dispatchVars
  /\ UNCHANGED historyVars
  /\ UNCHANGED sidebarVars
  /\ UNCHANGED clientVars

NextStore ==
  \/ \E caller \in Callers, src \in Sources, targetUsers \in TargetChoices,
        settings \in SettingsChoices :
       StoreMediaCall(caller, src, targetUsers, settings)
  \/ \E caller \in Callers, id \in IdChoices : DeleteMediaCall(caller, id)
  \/ \E caller \in Callers : DeleteHistoryCall(caller)
  \/ \E c \in 1..MaxCalls : WriteDone(c)
  \/ \E c \in 1..MaxCalls : WriteFailed(c)
  \/ AddMedia
  \/ RemoveMedia
  \/ FlushMedia
  \/ \E u \in Guests : Presence(u)

StoreSpec == InitStore /\ [][NextStore]_vars

(* ---------------------------------------------------------------------- *)
(*  The media sidebar of one client: local collection, media log and      *)
(*  rendering queue                                                        *)
(* ---------------------------------------------------------------------- *)

\* The number of queries the sidebar handles.
MaxQueries == 4

\* static BATCH_SIZE, scaled down to the two media of the history.
BATCH_SIZE == 1

\* The users whose client is followed.
Viewers == {"gm", "a"}

\* The #sidebarSettings of the client.
SidebarChoices ==
  {[enabled |-> TRUE, gmOnly |-> FALSE], [enabled |-> TRUE, gmOnly |-> TRUE],
   [enabled |-> FALSE, gmOnly |-> FALSE]}

\* The media the owner has stored for a source.
HistoryMedia(src) ==
  [id |-> escapeSource(src), timestamp |-> 0, src |-> src,
   targetUsers |-> IF src = "/b.png" THEN <<"b">> ELSE <<"a">>,
   settings |-> CHOOSE settings \in SettingsChoices : TRUE]

\* The media history the local collection is initialised from.
CollectionChoices ==
  {<<>>, <<HistoryMedia("https://h1/a.png")>>,
   <<HistoryMedia("https://h1/a.png"), HistoryMedia("/b.png")>>}

\* The client after registerMediaSidebar and the construction of the sidebar.
InitQueue ==
  /\ active = UserIds
  /\ blacklist = {}
  /\ layers = [m \in LAYERS_MODES |-> TRUE]
  /\ canvas = FALSE
  /\ areas = [r \in AreaIds |->
                [exists |-> FALSE, sort |-> NoSort, media |-> NoMedia]]
  /\ clock = 0
  /\ disp = [d \in Dispatches |-> IdleDispatch]
  /\ store = [d \in Dispatches |-> NoStore]
  /\ persisted = <<>>
  /\ mirror \in CollectionChoices
  /\ inbox = <<>>
  /\ sent = <<>>
  /\ notices = 0
  /\ ops = <<>>
  /\ current \in Viewers
  /\ sidebarSettings \in SidebarChoices
  /\ rendered = FALSE
  /\ firstViewed = FALSE
  /\ mediaLog = <<>>
  /\ lastId = NoId
  /\ renderingQueue = <<>>
  /\ running = NoOperation
  /\ renderingBatch = FALSE
  /\ received = 0
  /\ flushed = FALSE
  /\ applied = NoEvent
  /\ ClientIdle

\* The variables of the owner's side, which the sidebar leaves alone.
remoteVars == << active, clock, persisted, inbox, sent >>

\* The guards of the query handlers and of _renderBatch: the user can access
\* the sidebar.
canAccess ==
  /\ sidebarSettings.enabled
  /\ sidebarSettings.gmOnly => isGM(current)

\* Semaphore(1): a queued operation starts as soon as no operation executes,
\* before any other event is handled.
StartDue == running = NoOperation /\ renderingQueue # <<>>

\* A li element of the media log.
Element(id) == [id |-> id, deleting |-> FALSE]

\* Index of the first element of the log with the id; 0 if none.
querySelector(log, id) ==
  IF \E i \in 1..Len(log) : log[i].id = id
  THEN CHOOSE i \in 1..Len(log) :
         log[i].id = id /\ \A j \in 1..(i - 1) : log[j].id # id
  ELSE 0

\* li.remove()
RemoveAt(log, i) == SubSeq(log, 1, i - 1) \o SubSeq(log, i + 1, Len(log))

\* _renderBatch without the #renderingBatch guard.
renderBatchUnguarded(queue, size) ==
  IF ~canAccess
  THEN [renderingBatch |-> renderingBatch, renderingQueue |-> queue]
  ELSE [renderingBatch |-> TRUE,
        renderingQueue |->
          Append(queue, [kind |-> "batch", id |-> NoId, animate |-> FALSE,
                         size |-> size])]

\* _renderBatch: the batch is requested unless one already is.
renderBatch(queue, size) ==
  IF renderingBatch \/ ~canAccess
  THEN [renderingBatch |-> renderingBatch, renderingQueue |-> queue]
  ELSE [renderingBatch |-> TRUE,
        renderingQueue |->
          Append(queue, [kind |-> "batch", id |-> NoId, animate |-> FALSE,
                         size |-> size])]

\* #onScrollLog: top tells whether the log is scrolled to its top.
onScrollLog(queue, top) ==
  IF rendered /\ top
  THEN renderBatch(queue, BATCH_SIZE)
  ELSE [renderingBatch |-> renderingBatch, renderingQueue |-> queue]

\* #doRemoveMedia that updates #lastId before it looks whether the element
\* exists: without an element #lastId becomes null.
doRemoveMediaClearsLast(log, last, id, animate) ==
  LET i == querySelector(log, id)
  IN  IF ~rendered
      THEN [mediaLog |-> log, lastId |-> last, removed |-> FALSE,
            found |-> FALSE]
      ELSE IF i = 0
      THEN [mediaLog |-> log, lastId |-> NoId, removed |-> FALSE,
            found |-> FALSE]
      ELSE [mediaLog |-> IF animate
                         THEN [log EXCEPT ![i].deleting = TRUE]
                         ELSE RemoveAt(log, i),
            lastId |-> IF id = last
                       THEN IF i < Len(log) THEN log[i + 1].id ELSE NoId
                       ELSE last,
            removed |-> ~animate, found |-> TRUE]

\* #doRemoveMedia up to the removal of the element: the log, #lastId, and
\* whether removeAndScroll has run.
doRemoveMedia(log, last, id, animate) ==
  LET i == querySelector(log, id)
  IN  IF ~rendered \/ i = 0
      THEN [mediaLog |-> log, lastId |-> last, removed |-> FALSE,
            found |-> FALSE]
      ELSE [mediaLog |-> IF animate
                         THEN [log EXCEPT ![i].deleting = TRUE]
                         ELSE RemoveAt(log, i),
            lastId |-> IF id = last
                       THEN IF i < Len(log) THEN log[i + 1].id ELSE NoId
                       ELSE last,
            removed |-> ~animate, found |-> TRUE]

\* A media list that is the whole collection for every user.
mediaListUnfiltered == mirror

\* The media of the collection the current user may see.
mediaList ==
  IF isGM(current) THEN mirror
  ELSE SelectSeq(mirror, LAMBDA media : current \in Range(media.targetUsers))

\* findIndex on the media list; 0 stands for -1.
findIndex(list, id) ==
  IF \E i \in 1..Len(list) : list[i].id = id
  THEN CHOOSE i \in 1..Len(list) : list[i].id = id
  ELSE 0

\* A slice taken from the old end of the list instead of from #lastId.
mediaListBatchedFromStart(list, last, size) ==
  LET found == findIndex(list, last)
      lastIdx == IF found > 0 THEN found - 1 ELSE Len(list)
  IN  SubSeq(list, 1, IF size < lastIdx THEN size ELSE lastIdx)

\* The slice #doRenderBatch renders: the media before the one of #lastId,
\* at most size of them; all the list counts when #lastId is not in it.
mediaListBatched(list, last, size) ==
  LET found == findIndex(list, last)
      lastIdx == IF found > 0 THEN found - 1 ELSE Len(list)
      targetIdx == IF lastIdx - size > 0 THEN lastIdx - size ELSE 0
  IN  SubSeq(list, targetIdx + 1, lastIdx)

\* The sidebar is rendered for a user who has its tab.
\* The record of a call of _renderBatch: found tells whether it queued a
\* batch.
Requested(request) ==
  [kind |-> "request", phase |-> "finished", id |-> NoId,
   found |-> request.renderingQueue # renderingQueue, size |-> BATCH_SIZE]

\* The record of the start of a queued operation: found tells whether the
\* operation found its element, the log or the media of #lastId.
StartedOperation(operation, found, size) ==
  [kind |-> operation.kind, phase |-> "started", id |-> operation.id,
   found |-> found, size |-> size]

OnFirstRender ==
  /\ ~StartDue
  /\ ~rendered
  /\ canAccess
  /\ rendered' = TRUE
  /\ UNCHANGED << current, sidebarSettings, firstViewed, mediaLog, lastId,
                  renderingQueue, running, renderingBatch, received, mirror >>
  /\ UNCHANGED << flushed, applied >>
  /\ UNCHANGED remoteVars
  /\ UNCHANGED dispatchVars
  /\ UNCHANGED historyVars
  /\ UNCHANGED clientVars

\* _onActivate: the first view of the tab asks for the first batch.
OnActivate ==
  /\ ~StartDue
  /\ rendered
  /\ ~firstViewed
  /\ firstViewed' = TRUE
  /\ LET request == renderBatch(renderingQueue, BATCH_SIZE)
     IN  /\ renderingBatch' = request.renderingBatch
         /\ renderingQueue' = request.renderingQueue
         /\ applied' = Requested(request)
  /\ UNCHANGED << current, sidebarSettings, rendered, mediaLog, lastId,
                  running, received, mirror >>
  /\ UNCHANGED flushed
  /\ UNCHANGED remoteVars
  /\ UNCHANGED dispatchVars
  /\ UNCHANGED historyVars
  /\ UNCHANGED clientVars

\* A scroll event with the log at its top.
OnScrollLog ==
  /\ ~StartDue
  /\ rendered
  /\ canAccess
  /\ LET request == onScrollLog(renderingQueue, TRUE)
     IN  /\ renderingBatch' = request.renderingBatch
         /\ renderingQueue' = request.renderingQueue
         /\ applied' = Requested(request)
  /\ UNCHANGED << current, sidebarSettings, rendered, firstViewed, mediaLog,
                  lastId, running, received, mirror >>
  /\ UNCHANGED flushed
  /\ UNCHANGED remoteVars
  /\ UNCHANGED dispatchVars
  /\ UNCHANGED historyVars
  /\ UNCHANGED clientVars

\* A handler that keeps the local collection only while the user can access
\* the sidebar.
syncCollectionIfAccessible(next) ==
  mirror' = IF canAccess THEN next ELSE mirror

\* The first statements of the query handlers: the local collection of the
\* sidebar tab (isPopout is false) is brought in line with the query.
syncCollection(next) ==
  mirror' = next

\* An operation is added to #renderingQueue if the user can access the
\* sidebar.
queueAdd(operation) ==
  renderingQueue' = IF canAccess THEN Append(renderingQueue, operation)
                    ELSE renderingQueue

\* _addMedia: the query share-media.addMedia is handled.
OnAddMedia(src) ==
  /\ ~StartDue
  /\ received < MaxQueries
  /\ isGM(current) \/ current \in Range(HistoryMedia(src).targetUsers)
  /\ received' = received + 1
  /\ LET media == HistoryMedia(src)
     IN  /\ syncCollection(Set(Delete(mirror, media.id), media))
         /\ queueAdd([kind |-> "add", id |-> media.id, animate |-> FALSE,
                      size |-> 0])
  /\ UNCHANGED << current, sidebarSettings, rendered, firstViewed, mediaLog,
                  lastId, running, renderingBatch >>
  /\ UNCHANGED << flushed, applied >>
  /\ UNCHANGED remoteVars
  /\ UNCHANGED dispatchVars
  /\ UNCHANGED historyVars
  /\ UNCHANGED clientVars

\* _removeMedia: the query share-media.removeMedia is handled.
OnRemoveMedia(src, animate) ==
  /\ ~StartDue
  /\ received < MaxQueries
  /\ isGM(current) \/ current \in Range(HistoryMedia(src).targetUsers)
  /\ received' = received + 1
  /\ syncCollection(Delete(mirror, escapeSource(src)))
  /\ queueAdd([kind |-> "remove", id |-> escapeSource(src),
               animate |-> animate, size |-> 0])
  /\ UNCHANGED << current, sidebarSettings, rendered, firstViewed, mediaLog,
                  lastId, running, renderingBatch >>
  /\ UNCHANGED << flushed, applied >>
  /\ UNCHANGED remoteVars
  /\ UNCHANGED dispatchVars
  /\ UNCHANGED historyVars
  /\ UNCHANGED clientVars

\* _flushMedia: the query share-media.flushMedia is handled.
OnFlushMedia ==
  /\ ~StartDue
  /\ received < MaxQueries
  /\ received' = received + 1
  /\ syncCollection(<<>>)
  /\ queueAdd([kind |-> "flush", id |-> NoId, animate |-> FALSE, size |-> 0])
  /\ UNCHANGED << current, sidebarSettings, rendered, firstViewed, mediaLog,
                  lastId, running, renderingBatch >>
  /\ UNCHANGED << flushed, applied >>
  /\ UNCHANGED remoteVars
  /\ UNCHANGED dispatchVars
  /\ UNCHANGED historyVars
  /\ UNCHANGED clientVars

\* The queued operation of _addMedia up to the await of the rendering in
\* #doAddMedia: the element of the id is removed, #lastId is set if null.
StartAdd(operation, queue) ==
  LET removal == doRemoveMedia(mediaLog, lastId, operation.id, FALSE)
  IN  /\ mediaLog' = removal.mediaLog
      /\ \E top \in IF removal.removed THEN BOOLEAN ELSE {FALSE} :
           LET request == onScrollLog(queue, top)
           IN  /\ renderingBatch' = request.renderingBatch
               /\ renderingQueue' = request.renderingQueue
      /\ IF rendered
         THEN /\ lastId' = IF removal.lastId = NoId THEN operation.id
                           ELSE removal.lastId
              /\ running' = [kind |-> "add", id |-> operation.id,
                             animate |-> FALSE, batch |-> <<>>]
         ELSE /\ lastId' = removal.lastId
              /\ running' = NoOperation
      /\ applied' = StartedOperation(operation, removal.found, 0)
      /\ UNCHANGED flushed

\* #doRemoveMedia as a queued operation: it completes with the element
\* removed, or marked as deleting when the removal is animated.
StartRemove(operation, queue) ==
  LET removal == doRemoveMedia(mediaLog, lastId, operation.id,
                               operation.animate)
  IN  /\ mediaLog' = removal.mediaLog
      /\ lastId' = removal.lastId
      /\ \E top \in IF removal.removed THEN BOOLEAN ELSE {FALSE} :
           LET request == onScrollLog(queue, top)
           IN  /\ renderingBatch' = request.renderingBatch
               /\ renderingQueue' = request.renderingQueue
      /\ running' = NoOperation
      /\ applied' = StartedOperation(operation, removal.found, 0)
      /\ UNCHANGED flushed

\* #doFlushMedia
StartFlush(operation, queue) ==
  /\ mediaLog' = IF rendered THEN <<>> ELSE mediaLog
  /\ flushed' = (flushed \/ rendered)
  /\ applied' = StartedOperation(operation, rendered, 0)
  /\ renderingQueue' = queue
  /\ UNCHANGED << lastId, renderingBatch, running >>

\* #doRenderBatch up to the await of the rendering.
StartBatch(operation, queue) ==
  LET batch == mediaListBatched(mediaList, lastId, operation.size)
  IN  /\ renderingQueue' = queue
      /\ IF ~rendered \/ batch = <<>>
         THEN /\ renderingBatch' = FALSE
              /\ running' = NoOperation
         ELSE /\ running' = [kind |-> "batch", id |-> NoId,
                             animate |-> FALSE,
                             batch |-> [i \in 1..Len(batch) |-> batch[i].id]]
              /\ UNCHANGED renderingBatch
      /\ applied' = [StartedOperation(operation,
                                       findIndex(mediaList, lastId) > 0,
                                       Len(batch)) EXCEPT !.id = lastId]
      /\ UNCHANGED << mediaLog, lastId, flushed >>

\* #renderingQueue starts its next operation.
StartOperation ==
  /\ StartDue
  /\ LET operation == Head(renderingQueue)
         queue == Tail(renderingQueue)
     IN  CASE operation.kind = "add" -> StartAdd(operation, queue)
           [] operation.kind = "remove" -> StartRemove(operation, queue)
           [] operation.kind = "flush" -> StartFlush(operation, queue)
           [] operation.kind = "batch" -> StartBatch(operation, queue)
  /\ UNCHANGED << current, sidebarSettings, rendered, firstViewed, received,
                  mirror >>
  /\ UNCHANGED remoteVars
  /\ UNCHANGED dispatchVars
  /\ UNCHANGED historyVars
  /\ UNCHANGED clientVars

\* The rendering awaited by #doAddMedia or #doRenderBatch is done: the
\* elements are appended or prepended and the operation completes.
FinishOperation ==
  /\ running # NoOperation
  /\ IF running.kind = "add"
     THEN /\ mediaLog' = Append(mediaLog, Element(running.id))
          /\ UNCHANGED << lastId, renderingBatch >>
     ELSE /\ mediaLog' = [i \in 1..Len(running.batch) |->
                            Element(running.batch[i])] \o mediaLog
          /\ lastId' = running.batch[1]
          /\ renderingBatch' = FALSE
  /\ running' = NoOperation
  /\ UNCHANGED << current, sidebarSettings, rendered, firstViewed,
                  renderingQueue, received, mirror >>
  /\ applied' = [applied EXCEPT !.phase = "finished"]
  /\ UNCHANGED flushed
  /\ UNCHANGED remoteVars
  /\ UNCHANGED dispatchVars
  /\ UNCHANGED historyVars
  /\ UNCHANGED clientVars

\* The animation of a removal has finished: removeAndScroll runs.
AnimationFinished(i) ==
  /\ ~StartDue
  /\ i \in 1..Len(mediaLog)
  /\ mediaLog[i].deleting
  /\ mediaLog' = RemoveAt(mediaLog, i)
  /\ \E top \in BOOLEAN :
       LET request == onScrollLog(renderingQueue, top)
       IN  /\ renderingBatch' = request.renderingBatch
           /\ renderingQueue' = request.renderingQueue
           /\ applied' = IF rendered /\ top THEN Requested(request)
                         ELSE applied
  /\ UNCHANGED << current, sidebarSettings, rendered, firstViewed, lastId,
                  running, received, mirror >>
  /\ UNCHANGED flushed
  /\ UNCHANGED remoteVars
  /\ UNCHANGED dispatchVars
  /\ UNCHANGED historyVars
  /\ UNCHANGED clientVars

\* The longest media log followed.
MaxLog == 6

NextQueue ==
  \/ OnFirstRender
  \/ OnActivate
  \/ OnScrollLog
  \/ \E src \in Sources : OnAddMedia(src)
  \/ \E src \in Sources : OnRemoveMedia(src, TRUE)
  \/ OnFlushMedia
  \/ StartOperation
  \/ FinishOperation
  \/ \E i \in 1..MaxLog : AnimationFinished(i)

QueueSpec == InitQueue /\ [][NextQueue]_vars

(* ---------------------------------------------------------------------- *)
(*  MediaSidebar: a rendering that throws                                 *)
(* ---------------------------------------------------------------------- *)

\* A user of an earlier session who has been deleted from the world:
\* game.users.get returns undefined for this id.
FormerUser == "z"

\* A media of the history that was shared with the former user.
FormerMedia == [HistoryMedia("/b.png") EXCEPT !.targetUsers = <<FormerUser>>]

\* The client after registerMediaSidebar, with a history that may hold the
\* media of a former user.
InitRender ==
  /\ active = UserIds
  /\ blacklist = {}
  /\ layers = [m \in LAYERS_MODES |-> TRUE]
  /\ canvas = FALSE
  /\ areas = [r \in AreaIds |->
                [exists |-> FALSE, sort |-> NoSort, media |-> NoMedia]]
  /\ clock = 0
  /\ disp = [d \in Dispatches |-> IdleDispatch]
  /\ store = [d \in Dispatches |-> NoStore]
  /\ persisted = <<>>
  /\ mirror \in CollectionChoices
                 \cup {<<FormerMedia, HistoryMedia("https://h1/a.png")>>}
  /\ inbox = <<>>
  /\ sent = <<>>
  /\ notices = 0
  /\ ops = <<>>
  /\ current \in Viewers
  /\ sidebarSettings \in SidebarChoices
  /\ rendered = FALSE
  /\ firstViewed = FALSE
  /\ mediaLog = <<>>
  /\ lastId = NoId
  /\ renderingQueue = <<>>
  /\ running = NoOperation
  /\ renderingBatch = FALSE
  /\ received = 0
  /\ flushed = FALSE
  /\ applied = NoEvent
  /\ ClientIdle

\* _processAndRenderMedia throws on the list: for a gamemaster it reads the
\* color and name of every target user, and game.users.get gives undefined
\* for a user who is not in the world.
processAndRenderMediaThrows(list) ==
  /\ isGM(current)
  /\ \E i \in 1..Len(list) :
       \E userId \in Range(list[i].targetUsers) : userId \notin UserIds

\* The operation the queue is about to start is a batch whose rendering
\* throws.
BatchThrows ==
  /\ StartDue
  /\ Head(renderingQueue).kind = "batch"
  /\ rendered
  /\ processAndRenderMediaThrows(
       mediaListBatched(mediaList, lastId, Head(renderingQueue).size))

\* #renderingQueue starts an operation that does not throw.
StartOperationReturns == ~BatchThrows /\ StartOperation

\* #doRenderBatch is started and _processAndRenderMedia throws: the
\* operation is over, nothing after the call has run.
RenderBatchRejected ==
  /\ BatchThrows
  /\ renderingQueue' = Tail(renderingQueue)
  /\ running' = NoOperation
  /\ applied' = [StartedOperation(Head(renderingQueue),
                                  findIndex(mediaList, lastId) > 0, 0)
                   EXCEPT !.id = lastId, !.phase = "rejected"]
  /\ UNCHANGED << current, sidebarSettings, rendered, firstViewed, mediaLog,
                  lastId, renderingBatch, received, flushed, mirror >>
  /\ UNCHANGED remoteVars
  /\ UNCHANGED dispatchVars
  /\ UNCHANGED historyVars
  /\ UNCHANGED clientVars

NextRender ==
  \/ OnFirstRender
  \/ OnActivate
  \/ OnScrollLog
  \/ \E src \in Sources : OnAddMedia(src)
  \/ \E src \in Sources : OnRemoveMedia(src, TRUE)
  \/ OnFlushMedia
  \/ StartOperationReturns
  \/ RenderBatchRejected
  \/ FinishOperation
  \/ \E i \in 1..MaxLog : AnimationFinished(i)

RenderSpec == InitRender /\ [][NextRender]_vars

\* The queue takes its next operation and a rendering that has started
\* comes to its end.
FairRenderSpec ==
  /\ RenderSpec
  /\ WF_vars(StartOperationReturns)
  /\ WF_vars(RenderBatchRejected)
  /\ WF_vars(FinishOperation)

(* ---------------------------------------------------------------------- *)
(*  Properties of the dispatch pipeline                                   *)
(* ---------------------------------------------------------------------- *)

\* The queries dispatch d has sent so far.
SentBy(d) == SelectSeq(sent, LAMBDA q : q.d = d)

\* The users dispatch d has sent a query of the given type.
Recipients(d, type) ==
  {sent[i].to : i \in {j \in 1..Len(sent) :
                         sent[j].d = d /\ sent[j].type = type}}

\* The (mode, optionName, optionValue) triple is an entry of the catalog.
InCatalog(options) ==
  \E m \in DOMAIN MEDIA_ACTIONS : \E i \in 1..Len(MEDIA_ACTIONS[m]) :
    /\ MEDIA_ACTIONS[m][i].mode = options.mode
    /\ MEDIA_ACTIONS[m][i].optionName = options.optionName
    /\ MEDIA_ACTIONS[m][i].optionValue = options.optionValue

Malformed(options) == options.src = Undefined \/ ~InCatalog(options)

\* Dispatch d has been called.
Called(d) == disp[d].pc # "idle"

\* Dispatch d has left no trace outside its own record.
NoEffect(d) ==
  /\ SentBy(d) = <<>>
  /\ store[d] = NoStore
  /\ disp[d].update = IdleDispatch.update

\* C1: a request without src, or whose (mode, optionName, optionValue) is
\* not in the catalog, is rejected with an error by the call itself: the
\* call changes nothing but the dispatch's own result, no step of it ever
\* runs, no query is sent, no placement data and no history is written.
C1_MalformedRequestRejected ==
  [][\A d \in Dispatches :
       /\ (~Called(d) /\ disp'[d].pc # "idle" /\ Malformed(disp'[d].options))
            => /\ disp'[d].pc = "done"
               /\ disp'[d].result = "error"
               /\ disp'[d].log = <<>>
               /\ UNCHANGED << sent, areas, persisted, mirror, inbox, store,
                               notices >>
       /\ (Called(d) /\ Malformed(disp[d].options))
            => /\ disp'[d] = disp[d]
               /\ NoEffect(d)]_vars

C1_Witness ==
  \E d \in Dispatches :
    /\ disp[d].result = "error"
    /\ disp[d].options.src # Undefined
    /\ disp[d].options.mode \in LAYERS_MODES
    /\ ~InCatalog(disp[d].options)

\* C2: a valid request dispatched on the client of a user who is not a
\* gamemaster stops at its first step: one warning is shown, dispatch
\* resolves false, and no query, placement or history write is made.
C2_NonOwnerDenied ==
  [][\A d \in Dispatches :
       (Called(d) /\ ~isGM(disp[d].caller) /\ ~Malformed(disp[d].options))
         => /\ NoEffect(d)
            /\ disp[d].pc = "done" => disp[d].result = "false"
            /\ disp'[d] # disp[d]
                 => /\ disp'[d].pc = "done"
                    /\ disp'[d].result = "false"
                    /\ notices' = notices + 1
                    /\ UNCHANGED << sent, areas, persisted, mirror, inbox,
                                    store >>]_vars

C2_Witness ==
  \E d \in Dispatches :
    /\ ~isGM(disp[d].caller)
    /\ disp[d].result = "false"
    /\ notices > 0
    /\ NoEffect(d)

\* The stage of a step: authorization,
\* recipient resolution, blacklist filtering, placement selection and
\* ambient capture, persistence, history recording.
Stage(step) ==
  CASE step = "is-gm" -> 1
    [] step \in {"all-users", "user-selection"} -> 2
    [] step = "blacklist-filter" -> 3
    [] step \in {"area-selection", "has-darkness"} -> 4
    [] step \in {"create-area-flag", "create-layer"} -> 5
    [] step = "store-media" -> 6

\* The log of a dispatch is a sequence of start/return pairs: a step starts
\* only after the step before it has returned.
OneAtATime(log) ==
  \A i \in 1..Len(log) :
    IF i % 2 = 1 THEN log[i].ev = "start"
    ELSE log[i].ev \in {"end", "null"} /\ log[i].step = log[i - 1].step

\* C3: the steps of a dispatch run one at a time and in the order
\* authorization, recipient resolution, blacklist filter, placement
\* selection, persistence, history recording; the queries of the layer step
\* are sent before those of the history step, whose call is made only once
\* the persistence step has returned.
C3_StepsInOrder ==
  \A d \in Dispatches :
    LET log == disp[d].log
    IN  /\ OneAtATime(log)
        /\ \A i, j \in 1..Len(log) :
              (i < j /\ log[i].step # log[j].step)
                => /\ Stage(log[i].step) < Stage(log[j].step)
                   /\ log[i].ev = "start" => i + 1 < j
        /\ \A i, j \in 1..Len(sent) :
              (sent[i].d = d /\ sent[j].d = d /\ sent[i].type = "renderLayer"
                 /\ sent[j].type = "addMedia") => i < j
        /\ store[d].called > 0
              => \E i \in 1..Len(log) :
                   /\ log[i] = [step |-> "store-media", ev |-> "start"]
                   /\ i > 1 => log[i - 1].ev = "end"
                   /\ Stage(log[i - 1].step) = 5

C3_Witness ==
  \E d \in Dispatches :
    /\ disp[d].result = "true"
    /\ disp[d].options.darkness
    /\ Len(disp[d].log) = 12
    /\ store[d].state = "stored"

\* A step of the dispatch has returned null.
ReturnedNull(dr) == \E i \in 1..Len(dr.log) : dr.log[i].ev = "null"

IsPrefix(s, t) == Len(s) <= Len(t) /\ SubSeq(t, 1, Len(s)) = s

\* C4: when a step returns null the dispatch is over at once and resolves
\* false: no later step runs, nothing more is sent or written for it, and
\* what was sent or written before stays as it is.
C4_NullAborts ==
  [][\A d \in Dispatches :
       /\ ReturnedNull(disp'[d])
            => /\ disp'[d].pc = "done"
               /\ disp'[d].result = "false"
               /\ disp'[d].log[Len(disp'[d].log)].ev = "null"
       /\ (~ReturnedNull(disp[d]) /\ ReturnedNull(disp'[d]))
            => /\ IsPrefix(sent, sent')
               /\ UNCHANGED << areas, persisted, mirror, store >>
       /\ ReturnedNull(disp[d])
            => /\ disp'[d] = disp[d]
               /\ store'[d] = store[d]
               /\ SentBy(d)' = SentBy(d)
               /\ IsPrefix(sent, sent')]_vars

C4_Witness ==
  \E d \in Dispatches :
    /\ disp[d].result = "false"
    /\ Len(disp[d].log) >= 6
    /\ disp[d].log[Len(disp[d].log)].ev = "null"

\* The dispatch reached the end of its pipeline.
Completed(d) == disp[d].pc = "done" /\ disp[d].result = "true"

\* The target users the dispatch ended up with.
ResolvedRecipients(d) ==
  IF "targetUsers" \in DOMAIN disp[d].ctx THEN disp[d].ctx.targetUsers
  ELSE <<>>

LastEvent(d) == disp[d].log[Len(disp[d].log)]

\* C5 as stated: every completed dispatch has called storeMedia exactly
\* once, whatever the sidebar settings are.
C5_Original ==
  \A d \in Dispatches : Completed(d) => store[d].called = 1

\* C5 (amended): a completed dispatch ran the history step last, and that
\* step called storeMedia exactly once, with the request's source and the
\* resolved recipients, if the sidebar settings store the request's mode;
\* if they do not, storeMedia is not called at all.
C5_RecordedWhenLayerEnabled ==
  \A d \in Dispatches :
    /\ store[d].called <= 1
    /\ Completed(d)
         => /\ LastEvent(d) = [step |-> "store-media", ev |-> "end"]
            /\ store[d].called = 1 <=> layers[disp[d].options.mode]
            /\ store[d].called = 1
                 => /\ store[d].src = disp[d].options.src
                    /\ store[d].targetUsers = ResolvedRecipients(d)

C5_Witness ==
  \E d, e \in Dispatches :
    /\ Completed(d) /\ ~layers[disp[d].options.mode]
    /\ store[d].called = 0 /\ SentBy(d) # <<>>
    /\ Completed(e) /\ layers[disp[e].options.mode]
    /\ store[e].called = 1

\* Query i was sent to a user other than the owner.
ToPeer(i) == sent[i].to # Owner

TargetBefore(d, u, id) ==
  /\ Has(store[d].before, id)
  /\ u \in Range(Get(store[d].before, id).targetUsers)

Filtered(d) ==
  \E i \in 1..Len(disp[d].log) :
    disp[d].log[i].step = "blacklist-filter" /\ disp[d].log[i].ev # "start"

\* C7 as stated: a user blacklisted when the filter of the dispatch runs is
\* sent no query by that dispatch.
C7_Original ==
  \A d \in Dispatches : \A i \in 1..Len(sent) :
    (sent[i].d = d /\ Filtered(d) /\ ToPeer(i))
      => sent[i].to \notin disp[d].filterBlacklist

\* C7 (amended): in a popout or fullscreen dispatch a user blacklisted when
\* the filter runs is sent no renderLayer query and is not among the target
\* users given to storeMedia; it is sent the addMedia query only when the
\* media was in the history before with that user as a target.  When every
\* resolved user is blacklisted the dispatch resolves false, sends nothing
\* and does not call storeMedia.
C7_BlacklistedNotTargeted ==
  \A d \in Dispatches :
    Filtered(d)
      => /\ \A i \in 1..Len(sent) :
              (sent[i].d = d /\ sent[i].to \in disp[d].filterBlacklist)
                => /\ sent[i].type = "addMedia"
                   /\ Has(store[d].before, sent[i].data.id)
                   /\ sent[i].to \in
                        Range(Get(store[d].before, sent[i].data.id).targetUsers)
         /\ Range(store[d].targetUsers) \cap disp[d].filterBlacklist = {}
         /\ (/\ disp[d].resolved # <<>>
             /\ Range(disp[d].resolved) \subseteq disp[d].filterBlacklist)
              => /\ disp[d].pc = "done"
                 /\ disp[d].result = "false"
                 /\ LastEvent(d) = [step |-> "blacklist-filter", ev |-> "null"]
                 /\ NoEffect(d)

C7_Witness ==
  \E d \in Dispatches : \E i \in 1..Len(sent) :
    /\ Filtered(d)
    /\ Completed(d)
    /\ sent[i].d = d
    /\ sent[i].to \in disp[d].filterBlacklist
    /\ sent[i].type = "addMedia"
    /\ sent[i].to \notin Recipients(d, "renderLayer")

\* C8: a completed popout or fullscreen dispatch to all users has as target
\* users, and has sent the renderLayer query to, exactly the users that
\* were active when its blacklist filter ran and were not blacklisted then.
C8_AllUsersMinusBlacklist ==
  \A d \in Dispatches :
    (/\ Completed(d)
     /\ disp[d].options.optionName = "users"
     /\ disp[d].options.optionValue = "all")
      => /\ Range(disp[d].ctx.targetUsers)
              = disp[d].filterActive \ disp[d].filterBlacklist
         /\ Recipients(d, "renderLayer")
              = disp[d].filterActive \ disp[d].filterBlacklist

C8_Witness ==
  \E d, e \in Dispatches :
    /\ Completed(d) /\ disp[d].options.optionValue = "all"
    /\ disp[d].options.optionName = "users"
    /\ disp[d].filterBlacklist = {"b"} /\ "b" \in disp[d].filterActive
    /\ Recipients(d, "renderLayer") = {"gm", "a"}
    /\ Completed(e) /\ disp[e].options.optionValue = "all"
    /\ disp[e].options.optionName = "users"
    /\ "b" \notin disp[e].filterActive

\* C9: when the user selector of a dispatch is closed without a selection,
\* the dispatch ends there and resolves false, it has sent no query and
\* has not called storeMedia, and nothing of it changes afterwards.
C9_CancelledSelection ==
  [][\A d \in Dispatches :
       disp'[d].picked = "null"
         => /\ disp'[d].pc = "done"
            /\ disp'[d].result = "false"
            /\ disp'[d].log[Len(disp'[d].log)]
                 = [step |-> "user-selection", ev |-> "null"]
            /\ SentBy(d)' = <<>>
            /\ store'[d] = NoStore
            /\ disp[d].picked # "null"
                 => UNCHANGED << sent, store, persisted, mirror, inbox,
                                 areas >>]_vars

C9_Witness ==
  \E d \in Dispatches :
    /\ disp[d].picked = "null"
    /\ disp[d].options.optionValue = "selection"
    /\ disp[d].result = "false"
    /\ Len(disp[d].log) = 4

\* The players among the target users of a storeMedia call.
Players(targetUsers) == {u \in Range(targetUsers) : ~isGM(u)}

\* The positions of the media with the given id in a collection.
Entries(coll, id) == {i \in 1..Len(coll) : coll[i].id = id}

\* The storeMedia call of dispatch d found a media with the same id in a
\* local collection that was equal to the stored history.
Reshared(d) ==
  /\ store[d].called = 1
  /\ store[d].insync
  /\ Has(store[d].before, escapeSource(store[d].src))

\* C10: storing a source that the history already holds, after the earlier
\* call has completed and reached the local collection, keeps one media for
\* its id: the target users are the union of the old and the new players,
\* the settings are those of this call, the timestamp is not earlier than
\* the old one and the collection has as many media as before; this is the
\* history that is written to the setting.
C10_ReshareMerges ==
  \A d \in Dispatches :
    Reshared(d)
      => LET key == escapeSource(store[d].src)
             old == Get(store[d].before, key)
             new == store[d].collection
         IN  /\ Cardinality(Entries(new, key)) = 1
             /\ Len(new) = Len(store[d].before)
             /\ \A i \in Entries(new, key) :
                  /\ Range(new[i].targetUsers)
                       = Range(old.targetUsers)
                           \cup Players(store[d].targetUsers)
                  /\ new[i].settings = store[d].settings
                  /\ new[i].timestamp >= old.timestamp
                  /\ new[i] = store[d].media
             /\ (store[d].state = "stored"
                  /\ \A e \in Dispatches : e > d => store[e].called = 0)
                  => persisted = new

C10_Witness ==
  \E d \in Dispatches :
    /\ Reshared(d)
    /\ store[d].state = "stored"
    /\ Get(store[d].before, escapeSource(store[d].src)).targetUsers = <<"a">>
    /\ Players(store[d].targetUsers) = {"b"}
    /\ Range(store[d].media.targetUsers) = {"a", "b"}
    /\ Get(store[d].before, escapeSource(store[d].src)).settings
         # store[d].settings
    /\ Len(persisted) = 1

\* C13 as stated: a dispatch whose history write was rejected has not
\* resolved true.
C13_Original ==
  \A d \in Dispatches :
    store[d].state = "failed" => disp[d].result # "true"

(* ---------------------------------------------------------------------- *)
(*  Properties of the history store                                       *)
(* ---------------------------------------------------------------------- *)

\* The calls made so far.
Calls == 1..Len(ops)

\* The number of queries call c has sent to user u.
CountTo(c, u) ==
  Cardinality({i \in 1..Len(sent) : sent[i].d = c /\ sent[i].to = u})

\* Call c has just been made.
JustCalled(c) == c = Len(ops') /\ Len(ops') = Len(ops) + 1

\* The storage write of call c has just succeeded.
JustWritten(c) ==
  c \in Calls /\ ops[c].state = "pending" /\ ops'[c].state = "stored"

\* C11 as stated: a media of the stored history never loses a target user
\* while it stays in the history.
C11_Original ==
  [][\A id \in IdChoices :
       (Has(persisted, id) /\ Has(persisted', id))
         => Range(Get(persisted, id).targetUsers)
              \subseteq Range(Get(persisted', id).targetUsers)]_vars

\* C12: a call whose storage write is rejected is rejected and sends no
\* query; queries are only ever sent by the step in which the write of
\* their call succeeds and the setting takes the call's collection.
C12_NoPushWithoutPersist ==
  [][/\ \A c \in 1..Len(ops') :
          ops'[c].state = "failed" => SentBy(c)' = <<>>
     /\ \A c \in Calls :
          (ops[c].state = "pending" /\ ops'[c].state = "failed")
            => UNCHANGED << sent, inbox, persisted, mirror >>
     /\ sent' # sent
          => \E c \in Calls :
               /\ JustWritten(c)
               /\ persisted' = ops[c].collection
               /\ IsPrefix(sent, sent')
               /\ \A i \in (Len(sent) + 1)..Len(sent') : sent'[i].d = c]_vars

C12_Witness ==
  \E c, e \in Calls :
    /\ ops[c].op = "deleteMedia" /\ ops[c].state = "failed"
    /\ Has(persisted, ops[c].id)
    /\ ops[e].op = "storeMedia" /\ ops[e].state = "failed"
    /\ SentBy(c) = <<>> /\ SentBy(e) = <<>>

\* C14: storeMedia, deleteMedia and deleteHistory called on the client of a
\* user who is not a gamemaster return without an error, and leave the
\* stored history, the local collection and the sent queries as they were.
C14_NonOwnerNoOp ==
  [][\A c \in 1..Len(ops') :
       ~isGM(ops'[c].caller)
         => /\ ops'[c].state = "returned"
            /\ SentBy(c)' = <<>>
            /\ JustCalled(c)
                 => UNCHANGED << persisted, mirror, inbox, sent, clock >>]_vars

C14_Witness ==
  \E c, e \in Calls :
    /\ ops[c].caller = "a" /\ ops[c].op = "deleteHistory"
    /\ ops[e].caller = "a" /\ ops[e].op = "deleteMedia"
    /\ Has(persisted, ops[e].id) /\ Has(mirror, ops[e].id)

\* C15: a storeMedia call whose write succeeded has sent the addMedia query
\* with its media exactly once to every user who was active then and is a
\* gamemaster or a target user of the merged media, and to nobody else.
C15_AddMediaRecipients ==
  \A c \in Calls :
    (ops[c].op = "storeMedia" /\ ops[c].state = "stored")
      => /\ \A u \in UserIds :
              CountTo(c, u)
                = IF /\ u \in ops[c].notified
                     /\ \/ isGM(u)
                        \/ u \in Range(ops[c].media.targetUsers)
                  THEN 1 ELSE 0
         /\ \A i \in 1..Len(sent) :
              sent[i].d = c
                => sent[i].type = "addMedia" /\ sent[i].data = ops[c].media

C15_Witness ==
  \E c \in Calls :
    /\ ops[c].op = "storeMedia" /\ ops[c].state = "stored"
    /\ Range(ops[c].media.targetUsers) = {"a", "b"}
    /\ "b" \notin ops[c].notified
    /\ CountTo(c, "a") = 1 /\ CountTo(c, "gm") = 1 /\ CountTo(c, "b") = 0

\* C16: deleteMedia of an id the owner's collection holds writes the
\* collection without that id and then sends removeMedia, with the animate
\* option, exactly once to every user who is active then and is a
\* gamemaster or was a target user of the media before the deletion;
\* deleteMedia of an id the collection does not hold writes and sends
\* nothing.
C16_DeleteNotifiesFormerTargets ==
  [][\A c \in 1..Len(ops') :
       ops'[c].op = "deleteMedia"
         => LET call == ops'[c]
                held == Has(call.before, call.id)
            IN  /\ (isGM(call.caller) /\ held) <=> call.state # "returned"
                /\ call.state = "returned" => SentBy(c)' = <<>>
                /\ JustCalled(c) => UNCHANGED << persisted, sent, inbox >>
                /\ call.state # "returned" => ~Has(call.collection, call.id)
                /\ JustWritten(c)
                     => /\ persisted' = Delete(call.before, call.id)
                        /\ sent = SelectSeq(sent, LAMBDA q : q.d # c)
                /\ call.state = "stored"
                     => /\ \A u \in UserIds :
                             CountTo(c, u)'
                               = IF /\ u \in call.notified
                                    /\ \/ isGM(u)
                                       \/ u \in Range(Get(call.before,
                                                          call.id).targetUsers)
                                 THEN 1 ELSE 0
                        /\ \A i \in 1..Len(sent') :
                             sent'[i].d = c
                               => /\ sent'[i].type = "removeMedia"
                                  /\ sent'[i].data
                                       = [id |-> call.id,
                                          options |-> [animate |-> TRUE]]]_vars

C16_Witness ==
  \E c, e \in Calls :
    /\ ops[c].op = "deleteMedia" /\ ops[c].state = "stored"
    /\ ops[c].insync
    /\ CountTo(c, "a") = 1 /\ CountTo(c, "b") = 0 /\ "b" \in ops[c].notified
    /\ ~Has(persisted, ops[c].id)
    /\ ops[e].op = "deleteMedia" /\ ops[e].state = "returned"
    /\ isGM(ops[e].caller)

\* C17: deleteHistory writes an empty history and then sends flushMedia
\* exactly once to every user who is active then, target of a media or not,
\* and to no other user.
C17_FlushToAllActive ==
  [][\A c \in 1..Len(ops') :
       (ops'[c].op = "deleteHistory" /\ isGM(ops'[c].caller))
         => /\ ops'[c].collection = <<>>
            /\ JustWritten(c)
                 => /\ persisted' = <<>>
                    /\ sent = SelectSeq(sent, LAMBDA q : q.d # c)
            /\ ops'[c].state = "stored"
                 => /\ \A u \in UserIds :
                         CountTo(c, u)'
                           = IF u \in ops'[c].notified THEN 1 ELSE 0
                    /\ \A i \in 1..Len(sent') :
                         sent'[i].d = c => sent'[i].type = "flushMedia"]_vars

C17_Witness ==
  \E c \in Calls :
    /\ ops[c].op = "deleteHistory" /\ ops[c].state = "stored"
    /\ ops[c].before # <<>>
    /\ \A i \in 1..Len(ops[c].before) :
         "b" \notin Range(ops[c].before[i].targetUsers)
    /\ CountTo(c, "b") = 1 /\ CountTo(c, "a") = 1 /\ CountTo(c, "gm") = 1
    /\ persisted = <<>>

(* ---------------------------------------------------------------------- *)
(*  Properties of the media sidebar                                       *)
(* ---------------------------------------------------------------------- *)

\* An element of the log is still being removed by an animated removal.
Deleting == \E i \in 1..Len(mediaLog) : mediaLog[i].deleting

\* C18 as stated: when the rendering queue starts an operation, every
\* operation before it has completed all its changes of the media log, so
\* no element is still waiting to be removed.
C18_Original == StartDue => ~Deleting

\* The number of elements of the log that carry the id and are not being
\* removed.
Shown(log, id) ==
  Cardinality({i \in 1..Len(log) : log[i].id = id /\ ~log[i].deleting})

\* C19 as stated: when the queued operation of _addMedia completes on a
\* rendered sidebar, the log has exactly one element with the id of the
\* media.
C19_Original ==
  [][(running.kind = "add" /\ running' = NoOperation)
       => Shown(mediaLog', running.id) = 1]_vars

\* C20 as stated: the flush leaves the media log empty, and once the log
\* has been flushed no media is shown more than once.
C20_Original ==
  [][/\ (StartDue /\ Head(renderingQueue).kind = "flush" /\ rendered)
          => mediaLog' = <<>>
     /\ flushed' => \A id \in IdChoices : Shown(mediaLog', id) <= 1]_vars

\* The operation a query handler has just added to the rendering queue.
Queued(kind) ==
  /\ Len(renderingQueue') = Len(renderingQueue) + 1
  /\ renderingQueue'[Len(renderingQueue')].kind = kind

\* The rendering queue is about to start an operation of the kind.
Starting(kind) == StartDue /\ Head(renderingQueue).kind = kind

\* C21: _removeMedia takes the id out of the local collection and changes
\* neither the media log nor #lastId; when its queued #doRemoveMedia finds no
\* element with the id, it leaves the log and #lastId as they are and
\* requests no batch.
C21_RemoveAbsentElement ==
  [][/\ Queued("remove")
          => /\ mirror'
                  = Delete(mirror, renderingQueue'[Len(renderingQueue')].id)
             /\ UNCHANGED << mediaLog, lastId >>
     /\ (Starting("remove")
           /\ querySelector(mediaLog, Head(renderingQueue).id) = 0)
          => UNCHANGED << mediaLog, lastId, mirror, renderingBatch >>]_vars

C21_Witness ==
  /\ applied.kind = "remove" /\ ~applied.found
  /\ rendered
  /\ mediaLog # <<>>
  /\ lastId # NoId
  /\ lastId = mediaLog[1].id
  /\ ~Has(mirror, applied.id)
  /\ mirror # <<>>

\* The number of batches queued or being rendered.
BatchesInFlight ==
  Cardinality({i \in 1..Len(renderingQueue) :
                 renderingQueue[i].kind = "batch"})
    + (IF running.kind = "batch" THEN 1 ELSE 0)

\* A call of _renderBatch has just been made.
JustRequested == applied'.kind = "request" /\ applied' # applied

Older(list, cursor) ==
  IF cursor = NoId THEN Len(list)
  ELSE Cardinality({k \in 1..Len(list) :
                      \E j \in (k + 1)..Len(list) : list[j].id = cursor})

Quiet == running = NoOperation /\ renderingQueue = <<>> /\ ~Deleting

\* C24 as stated: when no queued operation is running, #lastId is null or
\* the id of the first element of the media log.
C24_Original ==
  Quiet => (lastId = NoId \/ (mediaLog # <<>> /\ lastId = mediaLog[1].id))

(* ---------------------------------------------------------------------- *)
(*  Convergence of the local collection                                    *)
(* ---------------------------------------------------------------------- *)

\* Every call has returned and every query to the owner's client has been
\* handled.
CallsSettled ==
  /\ \A c \in Calls : ops[c].state # "pending"
  /\ inbox = <<>>

\* C25 as stated: once the calls have returned and the queries have been
\* handled, the local collection of the owner's client holds the media of
\* the stored history, with the same contents.
C25_Original ==
  CallsSettled
    => \A id \in IdChoices :
         /\ Has(mirror, id) <=> Has(persisted, id)
         /\ Has(mirror, id) => Get(mirror, id) = Get(persisted, id)

(* ---------------------------------------------------------------------- *)
(*  Properties of the placement and layer steps                           *)
(* ---------------------------------------------------------------------- *)

\* Dispatch d is a valid popout or fullscreen request that asks for darkness.
WantsDarkness(d) ==
  /\ Called(d)
  /\ ~Malformed(disp[d].options)
  /\ disp[d].options.darkness
  /\ disp[d].options.mode # "scene"

\* C27: a popout or fullscreen dispatch that asks for darkness while no
\* canvas is active ends with the result false, has sent no query and has
\* not called storeMedia; with a canvas, every renderLayer query of the
\* dispatch carries the id of the viewed scene.
C27_DarknessNeedsCanvas ==
  \A d \in Dispatches :
    WantsDarkness(d)
      => /\ ~canvas
              => /\ NoEffect(d)
                 /\ disp[d].pc = "done" => disp[d].result = "false"
         /\ canvas
              => \A i \in 1..Len(sent) :
                   (sent[i].d = d /\ sent[i].type = "renderLayer")
                     => /\ "sceneId" \in DOMAIN sent[i].data
                        /\ sent[i].data.sceneId = SceneId

C27_Witness ==
  \E d \in Dispatches :
    /\ WantsDarkness(d)
    /\ ~canvas
    /\ disp[d].pc = "done"
    /\ LastEvent(d) = [step |-> "has-darkness", ev |-> "null"]
    /\ NoEffect(d)

\* Dispatch d is a valid popout or fullscreen request.
ToUsers(d) ==
  /\ Called(d)
  /\ ~Malformed(disp[d].options)
  /\ disp[d].options.mode # "scene"

\* The positions in the sent queries of the renderLayer queries of d to u.
RenderLayerTo(d, u) ==
  {i \in 1..Len(sent) :
     sent[i].d = d /\ sent[i].type = "renderLayer" /\ sent[i].to = u}

\* C29: a completed popout or fullscreen dispatch has sent one renderLayer
\* query to each of its target users and none to anyone else, each carrying
\* the context without the target users; a dispatch that ends with no
\* target users has sent no query and has not completed.
C29_OneRenderLayerPerTarget ==
  \A d \in Dispatches :
    ToUsers(d)
      => /\ Completed(d)
              => /\ ResolvedRecipients(d) # <<>>
                 /\ \A u \in Range(Users) :
                      Cardinality(RenderLayerTo(d, u))
                        = IF u \in Range(ResolvedRecipients(d)) THEN 1 ELSE 0
         /\ \A u \in Range(Users) : \A i \in RenderLayerTo(d, u) :
              /\ u \in Range(ResolvedRecipients(d))
              /\ sent[i].data = Without(disp[d].ctx, {"targetUsers"})
         /\ (disp[d].pc = "done" /\ ResolvedRecipients(d) = <<>>)
              => /\ disp[d].result = "false"
                 /\ SentBy(d) = <<>>

C29_Witness ==
  \E d, e \in Dispatches :
    /\ ToUsers(d) /\ Completed(d)
    /\ Len(ResolvedRecipients(d)) = 2
    /\ Len(SelectSeq(sent, LAMBDA q : q.d = d /\ q.type = "renderLayer")) = 2
    /\ ToUsers(e) /\ disp[e].pc = "done"
    /\ "targetUsers" \in DOMAIN disp[e].ctx
    /\ disp[e].ctx.targetUsers = <<>>
    /\ LastEvent(e) = [step |-> "create-layer", ev |-> "null"]

\* The registered steps whose condition holds on the request.
ActiveSteps(options) ==
  {name \in Range(PIPELINE_STEPS) : StepCondition(name, options)}

\* The steps a dispatch has started so far.
StepsRun(dr) == {dr.log[i].step : i \in 1..Len(dr.log)}

\* C30: the pipeline of a dispatch is made of the registered steps whose
\* condition holds on the request it was called with, and is the same from
\* the call to the end: every step that runs is one of them, a completed
\* dispatch has run all of them, whatever the steps have put into the
\* context.
C30_PipelineFixedAtCall ==
  [][\A d \in Dispatches :
       (disp'[d].pc # "idle" /\ ~Malformed(disp'[d].options))
         => /\ Range(disp'[d].pipeline) = ActiveSteps(disp'[d].options)
            /\ Called(d) => /\ disp'[d].pipeline = disp[d].pipeline
                            /\ disp'[d].options = disp[d].options
            /\ StepsRun(disp'[d]) \subseteq ActiveSteps(disp'[d].options)
            /\ (disp'[d].pc = "done" /\ disp'[d].result = "true")
                 => StepsRun(disp'[d]) = ActiveSteps(disp'[d].options)]_vars

C30_Witness ==
  \E d \in Dispatches :
    /\ Completed(d)
    /\ {"targetUsers", "sceneId"} \subseteq DOMAIN disp[d].ctx
    /\ DOMAIN disp[d].ctx # DOMAIN disp[d].options
    /\ Len(disp[d].pipeline) = 6
    /\ StepsRun(disp[d]) = Range(disp[d].pipeline)

(* ---------------------------------------------------------------------- *)
(*  Properties of the scene mode                                          *)
(* ---------------------------------------------------------------------- *)

\* The area-selection step of dispatch d has ended with null.
AreaSelectionNull(dr) ==
  /\ dr.pc = "done"
  /\ dr.result = "false"
  /\ dr.log[Len(dr.log)] = [step |-> "area-selection", ev |-> "null"]

Placed(d, r) ==
  /\ disp[d].pc = "wait-flag"
  /\ disp'[d].pc # "wait-flag"
  /\ disp[d].ctx.targetArea = r

\* C28 as stated: a share to an area without a sort index gives it one
\* above the sort index of every other available area, and a share to an
\* area that has a sort index leaves that index as it is.
C28_Original ==
  [][\A d \in Dispatches, r \in AreaIds :
       Placed(d, r)
         => IF areas[r].sort = NoSort
            THEN \A q \in getAvailableAreas \ {r} :
                   areas'[r].sort > areas[q].sort
            ELSE areas'[r].sort = areas[r].sort]_vars

(* ---------------------------------------------------------------------- *)
(*  Properties of the registry of steps                                   *)
(* ---------------------------------------------------------------------- *)

\* The steps of a pipeline that give the dispatch its target users.
UserSteps(pipeline) == Range(pipeline) \cap {"all-users", "user-selection"}

\* C31: the pipeline of a valid request holds one of the steps all-users
\* and user-selection, never both and never neither; the same holds of the
\* conditions of the two steps on every entry of MEDIA_ACTIONS.
C31_OneUserStep ==
  /\ \A d \in Dispatches :
       (Called(d) /\ ~Malformed(disp[d].options))
         => Cardinality(UserSteps(disp[d].pipeline)) = 1
  /\ \A m \in LAYERS_MODES : \A i \in 1..Len(MEDIA_ACTIONS[m]) :
       StepCondition("all-users", MEDIA_ACTIONS[m][i])
         # StepCondition("user-selection", MEDIA_ACTIONS[m][i])

C31_Witness ==
  \E d, e \in Dispatches :
    /\ disp[d].pc = "done" /\ disp[d].options.mode = "scene"
    /\ UserSteps(disp[d].pipeline) = {"all-users"}
    /\ "all-users" \in StepsRun(disp[d])
    /\ disp[e].pc = "done"
    /\ UserSteps(disp[e].pipeline) = {"user-selection"}
    /\ "user-selection" \in StepsRun(disp[e])

(* ---------------------------------------------------------------------- *)
(*  Properties of the stored media                                        *)
(* ---------------------------------------------------------------------- *)

\* No media of the collection has a gamemaster among its target users.
PlayersOnly(coll) ==
  \A i \in 1..Len(coll) : \A u \in Range(coll[i].targetUsers) : ~isGM(u)

\* C32: no media of the stored history, of the owner's collection, of a
\* collection being written or of an addMedia query has a gamemaster among
\* its target users, whatever target users storeMedia was called with.
C32_NoGamemasterTarget ==
  /\ PlayersOnly(persisted)
  /\ PlayersOnly(mirror)
  /\ \A c \in Calls : PlayersOnly(ops[c].collection)
  /\ \A i \in 1..Len(sent) :
       sent[i].type = "addMedia"
         => \A u \in Range(sent[i].data.targetUsers) : ~isGM(u)

C32_Witness ==
  \E c \in Calls :
    /\ ops[c].op = "storeMedia" /\ ops[c].state = "stored"
    /\ "gm" \in Range(ops[c].targetUsers)
    /\ Has(persisted, ops[c].id)
    /\ "b" \in Range(Get(persisted, ops[c].id).targetUsers)
    /\ Has(mirror, ops[c].id)

(* ---------------------------------------------------------------------- *)
(*  Properties of the selector dialogs                                    *)
(* ---------------------------------------------------------------------- *)

\* C33: the promise of wait() is settled once: by a submission with the
\* users checked in the form, or with null by the close of a dialog that
\* was not submitted; once settled, the result the dispatch got stays the
\* same, also through the close that follows a submission.
C33_WaitResolvesOnce ==
  [][\A d \in Dispatches :
       /\ disp[d].picked # "none"
            => /\ disp'[d].picked = disp[d].picked
               /\ disp'[d].log = disp[d].log \/ disp[d].pc # "done"
               /\ ResolvedRecipients(d)' = ResolvedRecipients(d)
                    \/ disp[d].pc = "run"
       /\ (disp[d].picked = "none" /\ disp'[d].picked # "none")
            => IF disp'[d].dialog = "submitted"
               THEN /\ disp'[d].picked = "users"
                    /\ Range(ResolvedRecipients(d)') = disp'[d].form
               ELSE /\ disp[d].dialog = "open"
                    /\ disp'[d].dialog = "closed"
                    /\ disp'[d].picked = "null"
                    /\ disp'[d].result = "false"]_vars

C33_Witness ==
  \E d \in Dispatches :
    /\ disp[d].dialog = "closed"
    /\ disp[d].picked = "users"
    /\ disp[d].form = {"a"}
    /\ Completed(d)
    /\ ResolvedRecipients(d) = <<"a">>

(* ---------------------------------------------------------------------- *)
(*  Properties of the displayed media                                     *)
(* ---------------------------------------------------------------------- *)

\* C34 as stated: whatever add, remove, flush and batch operations the
\* rendering queue has run, once it is at rest no id has more than one
\* element in the media log.
C34_Original ==
  Quiet => \A i, j \in 1..Len(mediaLog) :
             mediaLog[i].id = mediaLog[j].id => i = j

\* The ids of the media of a collection.
Ids(coll) == {coll[i].id : i \in 1..Len(coll)}

\* C35 as stated: once every storage write is over and every query to the
\* owner's client has been handled, the stored history holds the ids of the
\* owner's local collection: no overlapping write has dropped a media.
C35_Original == CallsSettled => Ids(persisted) = Ids(mirror)

\* The media with the id is one the current user is a target user of.
Addressed(id) ==
  \E src \in Sources :
    /\ id = escapeSource(src)
    /\ current \in Range(HistoryMedia(src).targetUsers)

\* C36: on the client of a user who is not a gamemaster every element of
\* the media log shows a media that user is a target user of, also when the
\* local collection holds media of other users.
C36_OnlyOwnMedia ==
  ~isGM(current) => \A i \in 1..Len(mediaLog) : Addressed(mediaLog[i].id)

C36_Witness ==
  /\ ~isGM(current)
  /\ \E i \in 1..Len(mirror) : current \notin Range(mirror[i].targetUsers)
  /\ applied.kind = "batch" /\ applied.phase = "finished"
  /\ applied.size > 0
  /\ Quiet
  /\ mediaLog # <<>>
  /\ lastId = mediaLog[1].id

(* ---------------------------------------------------------------------- *)
(*  Properties of the batch flag                                          *)
(* ---------------------------------------------------------------------- *)

\* C37 as stated: #renderingBatch is set only while a batch is queued or
\* being rendered, every batch that was queued clears it when it ends, so
\* the flag never stays set.
C37_Original ==
  /\ [](renderingBatch => BatchesInFlight = 1)
  /\ renderingBatch ~> ~renderingBatch

(* ---------------------------------------------------------------------- *)
(*  The layers of one client: FullscreenLayer and MediaLayer             *)
(* ---------------------------------------------------------------------- *)

\* Number of fullscreen layers constructed in one behaviour.
MaxLayers == 3

\* Number of addSprite calls that reach the creation of a sprite in one
\* behaviour.
MaxAdds == 3

\* The variables the layers of the client leave alone, the areas apart.
besideLayers == << active, blacklist, layers, canvas, clock, disp, store,
                   persisted, mirror, inbox, sent, notices, ops >>

\* The client of a user on a scene with two placement areas and a canvas.
InitClient ==
  /\ active = UserIds
  /\ blacklist = {}
  /\ layers = [m \in LAYERS_MODES |-> TRUE]
  /\ canvas = TRUE
  /\ areas = [r \in AreaIds |->
                [exists |-> TRUE, sort |-> NoSort, media |-> NoMedia]]
  /\ clock = 0
  /\ disp = [d \in Dispatches |-> IdleDispatch]
  /\ store = [d \in Dispatches |-> NoStore]
  /\ persisted = <<>>
  /\ mirror = <<>>
  /\ inbox = <<>>
  /\ sent = <<>>
  /\ notices = 0
  /\ ops = <<>>
  /\ SidebarDisabled
  /\ flushed = FALSE
  /\ applied = NoEvent
  /\ ClientIdle

\* get rendered() of the constructed layers.
Rendered == {i \in 1..Len(instances) : instances[i] = "rendered"}

\* Application.close({ animate: false }) followed by _onClose, taken as one
\* step: the layer is closed and _instance is cleared if it is this layer.
closeLayer(list, i) == [list EXCEPT ![i] = "closed"]

\* ShareablesManager._renderLayer for the mode fullscreen: the constructor
\* closes the registered instance if it is rendered and registers the new
\* layer, then render({ force: true }) is started and not awaited.
RenderLayer ==
  /\ Len(instances) < MaxLayers
  /\ LET closed == IF staticInstance # None /\ staticInstance \in Rendered
                   THEN closeLayer(instances, staticInstance)
                   ELSE instances
     IN  instances' = Append(closed, "rendering")
  /\ staticInstance' = Len(instances) + 1
  /\ UNCHANGED << sprites, stage, adding, areas >>
  /\ UNCHANGED besideLayers
  /\ UNCHANGED sidebarVars

\* The rendering of a layer completes: the application is rendered.
LayerRendered(i) ==
  /\ i \in 1..Len(instances)
  /\ instances[i] = "rendering"
  /\ instances' = [instances EXCEPT ![i] = "rendered"]
  /\ UNCHANGED << staticInstance, sprites, stage, adding, areas >>
  /\ UNCHANGED besideLayers
  /\ UNCHANGED sidebarVars

\* A rendered layer is closed, by static close() if it is the registered
\* instance or on its own (a video that is not looped has ended): _onClose
\* clears _instance only if it is this layer.
LayerClosed(i) ==
  /\ i \in Rendered
  /\ instances' = closeLayer(instances, i)
  /\ staticInstance' = IF staticInstance = i THEN None ELSE staticInstance
  /\ UNCHANGED << sprites, stage, adding, areas >>
  /\ UNCHANGED besideLayers
  /\ UNCHANGED sidebarVars

\* sprite.destroy() (nothing without a canvas) and this.sprites.delete of
\* deleteSprite, which returns at once if no sprite is recorded for the area.
deleteSprite(targetArea) ==
  [sprites |-> [sprites EXCEPT ![targetArea] = None],
   stage |-> IF canvas /\ sprites[targetArea] # None
             THEN stage \ {sprites[targetArea]}
             ELSE stage]

\* addSprite up to await sprite.initialize(): the area is resolved, the
\* sprite recorded for it is deleted, and a sprite is created if
\* _getSpriteClass returns a class for the area.
addSprite(targetArea, src, spriteClass) ==
  LET deleted == deleteSprite(targetArea)
  IN  /\ sprites' = deleted.sprites
      /\ stage' = deleted.stage
      /\ adding' = IF spriteClass
                   THEN Append(adding, [area |-> targetArea, src |-> src,
                                        pc |-> "initialize"])
                   ELSE adding

\* #onUpdateArea: an update of an area reaches the client; with a media flag
\* addSprite is called and not awaited, without one deleteSprite is called.
UpdateArea(r, media, spriteClass) ==
  /\ areas[r].exists
  /\ areas' = [areas EXCEPT ![r].media = media]
  /\ IF media # NoMedia
     THEN /\ spriteClass => Len(adding) < MaxAdds
          /\ addSprite(r, media.src, spriteClass)
     ELSE /\ sprites' = deleteSprite(r).sprites
          /\ stage' = deleteSprite(r).stage
          /\ adding' = adding
  /\ UNCHANGED << instances, staticInstance >>
  /\ UNCHANGED besideLayers
  /\ UNCHANGED sidebarVars

\* #onDeleteArea: the area is deleted from the scene.
DeleteArea(r) ==
  /\ areas[r].exists
  /\ areas' = [areas EXCEPT ![r].exists = FALSE, ![r].media = NoMedia]
  /\ sprites' = deleteSprite(r).sprites
  /\ stage' = deleteSprite(r).stage
  /\ UNCHANGED << instances, staticInstance, adding >>
  /\ UNCHANGED besideLayers
  /\ UNCHANGED sidebarVars

\* The texture of a sprite is loaded: addSprite resumes after
\* sprite.initialize(), adds the sprite to the canvas and records it.
SpriteInitialized(c) ==
  /\ c \in 1..Len(adding)
  /\ adding[c].pc = "initialize"
  /\ stage' = IF canvas THEN stage \cup {c} ELSE stage
  /\ sprites' = [sprites EXCEPT ![adding[c].area] = c]
  /\ adding' = [adding EXCEPT ![c].pc = "done"]
  /\ UNCHANGED << instances, staticInstance, areas >>
  /\ UNCHANGED besideLayers
  /\ UNCHANGED sidebarVars

\* The texture cannot be loaded: #createMesh throws and addSprite is
\* rejected.
SpriteFailed(c) ==
  /\ c \in 1..Len(adding)
  /\ adding[c].pc = "initialize"
  /\ adding' = [adding EXCEPT ![c].pc = "failed"]
  /\ UNCHANGED << instances, staticInstance, areas, sprites, stage >>
  /\ UNCHANGED besideLayers
  /\ UNCHANGED sidebarVars

NextClient ==
  \/ RenderLayer
  \/ \E i \in 1..MaxLayers : LayerRendered(i)
  \/ \E i \in 1..MaxLayers : LayerClosed(i)
  \/ \E r \in AreaIds, media \in {NoMedia, SharedMedia},
        spriteClass \in BOOLEAN : UpdateArea(r, media, spriteClass)
  \/ \E r \in AreaIds : DeleteArea(r)
  \/ \E c \in 1..MaxAdds : SpriteInitialized(c)
  \/ \E c \in 1..MaxAdds : SpriteFailed(c)

ClientSpec == InitClient /\ [][NextClient]_vars

\* C38: at most one fullscreen layer is rendered on the client at any time.
C38_Original ==
  Cardinality(Rendered) <= 1

\* The sprites on the canvas that were created for an area.
OnCanvas(r) == {c \in stage : adding[c].area = r}

\* C39: every area has at most one sprite on the canvas, and every sprite on
\* the canvas is the one the sprites map records for its area.
C39_Original ==
  /\ \A r \in AreaIds : Cardinality(OnCanvas(r)) <= 1
  /\ \A c \in stage : sprites[adding[c].area] = c

\* The parts of the sidebar that show the media: the log, the queue of
\* rendering operations and what it is executing.
presentationVars == << mediaLog, lastId, renderingQueue, running,
                       renderingBatch, applied, flushed >>

\* What the handler of a query leaves for later: the operation is queued if
\* the user can access the sidebar, otherwise nothing of the presentation
\* changes.
Deferred(operation) ==
  /\ canAccess => /\ renderingQueue' = Append(renderingQueue, operation)
                  /\ UNCHANGED << mediaLog, lastId, running >>
  /\ ~canAccess => UNCHANGED presentationVars

\* C40: on the step that handles an add, remove or flush query the local
\* collection takes the value the query asks for, whatever the sidebar
\* settings and whether or not the sidebar is rendered; the media log is not
\* touched by that step, the operation is queued or, if the user cannot
\* access the sidebar, dropped.
C40_CollectionFollowsQueries ==
  [][/\ \A src \in Sources :
          OnAddMedia(src) =>
            /\ mirror' = Set(Delete(mirror, escapeSource(src)),
                             HistoryMedia(src))
            /\ Deferred([kind |-> "add", id |-> escapeSource(src),
                         animate |-> FALSE, size |-> 0])
     /\ \A src \in Sources :
          OnRemoveMedia(src, TRUE) =>
            /\ mirror' = Delete(mirror, escapeSource(src))
            /\ Deferred([kind |-> "remove", id |-> escapeSource(src),
                         animate |-> TRUE, size |-> 0])
     /\ OnFlushMedia =>
          /\ mirror' = <<>>
          /\ Deferred([kind |-> "flush", id |-> NoId, animate |-> FALSE,
                       size |-> 0])]_vars

\* A query has changed the collection of a client whose sidebar is disabled:
\* the collection never starts as the second media alone.
C40_Witness ==
  /\ ~sidebarSettings.enabled
  /\ received > 0
  /\ mirror = <<HistoryMedia("/b.png")>>
  /\ mediaLog = <<>>
  /\ renderingQueue = <<>>

====
